---- MODULE Spec2Model ----
(***************************************************************************)
(* A model of the LIS3DE register-access driver (src/lis3de_reg.c).        *)
(*                                                                         *)
(* The driver keeps no state of its own: the state is the sensor's         *)
(* register file, reached through the two transport functions of the       *)
(* context (ctx->read_reg, ctx->write_reg).  An accessor call is one       *)
(* atomic action: the driver is synchronous and single-threaded.  The      *)
(* model records, for the accessor called last, its arguments, its return  *)
(* status, the caller's output object and the transport calls it issued.   *)
(***************************************************************************)
EXTENDS Integers, Sequences, FiniteSets, TLC

VARIABLES
  ctx,     \* stmdev_ctx_t: the handle and the statuses the transport may return
  regs,    \* the device's register file: address -> byte
  ncalls,  \* accessor calls charged against the session bound
  call,    \* the accessor called last and its argument: [fn, val]
  ret,     \* the status it returned
  out,     \* the caller's output object after the call (a sequence of slots)
  trace,   \* the transport calls it issued, in order
  thread,  \* callers running concurrently: the setter each is in, and where
  history  \* the setter calls of a serialized session, in order: [fn, val]

vars == <<ctx, regs, ncalls, call, ret, out, trace, thread, history>>

(***************************************************************************)
(* Bounds of the model.                                                    *)
(***************************************************************************)
\* Accessor calls of one session.
MaxCalls == 1
\* Start register files a session may begin from.
NumSeeds == 4
\* Start byte of the register at address a under seed s: s*SeedStride + a.
SeedStride == 85

(***************************************************************************)
(* Bytes, bitfields, integer conversions.                                  *)
(***************************************************************************)
\* A bitfield of a register struct: its lowest bit and its width.
Bits(pos, len) == [pos |-> pos, len |-> len]

\* Reading bitfield f of the struct overlaid on byte b.
FieldGet(b, f) == (b \div (2 ^ f.pos)) % (2 ^ f.len)

\* The bits of b outside bitfield f.
FieldRest(b, f) == b - FieldGet(b, f) * (2 ^ f.pos)

\* Faulty variant of FieldSet: the value is shifted into place without
\* being cut to the field's width.
FieldSetSpill(b, f, v) == (FieldRest(b, f) + v * (2 ^ f.pos)) % 256

\* Faulty variant of FieldSet: the assignment clears the sibling fields.
FieldSetClobber(b, f, v) == (v % (2 ^ f.len)) * (2 ^ f.pos)

\* Assigning v to bitfield f of the struct overlaid on byte b: the value is
\* truncated to the field's width, the other bits keep their values.
FieldSet(b, f, v) == FieldRest(b, f) + (v % (2 ^ f.len)) * (2 ^ f.pos)

\* Faulty variant of Int8: the top bit is taken as a sign over a 7-bit
\* magnitude.
Int8Magnitude(b) == IF b >= 128 THEN -(b - 128) ELSE b

\* Faulty variant of Int8: the byte is taken as unsigned.
Int8Unsigned(b) == b

\* (int8_t) of a byte widened to int16_t.
Int8(b) == IF b >= 128 THEN b - 256 ELSE b

\* Faulty variant of Int16: the int is kept at full width.
Int16Wide(n) == n

\* Conversion of an int to int16_t (two's complement wrap).
Int16(n) == LET m == n % 65536 IN IF m >= 32768 THEN m - 65536 ELSE m

\* The content of a caller's output slot the accessor has not assigned:
\* a token outside every output type's range.
Prior(i) == 65536 + i

(***************************************************************************)
(* The register map, the register structs and the enumerations of          *)
(* lis3de_reg.h, which src/lis3de_reg.c includes.                          *)
(***************************************************************************)
\* LIS3DE_<name>: the register addresses.
LIS3DE ==
  [ STATUS_REG_AUX |-> 7,  OUT_ADC1_L |-> 8,    OUT_ADC1_H |-> 9,
    OUT_ADC2_L |-> 10,     OUT_ADC2_H |-> 11,   OUT_ADC3_L |-> 12,
    OUT_ADC3_H |-> 13,     WHO_AM_I |-> 15,     TEMP_CFG_REG |-> 31,
    CTRL_REG1 |-> 32,      CTRL_REG2 |-> 33,    CTRL_REG3 |-> 34,
    CTRL_REG4 |-> 35,      CTRL_REG5 |-> 36,    CTRL_REG6 |-> 37,
    REFERENCE |-> 38,      STATUS_REG |-> 39,   OUT_X |-> 41,
    OUT_Y |-> 43,          OUT_Z |-> 45,        FIFO_CTRL_REG |-> 46,
    FIFO_SRC_REG |-> 47,   IG1_CFG |-> 48,      IG1_SOURCE |-> 49,
    IG1_THS |-> 50,        IG1_DURATION |-> 51, IG2_CFG |-> 52,
    IG2_SOURCE |-> 53,     IG2_THS |-> 54,      IG2_DURATION |-> 55,
    CLICK_CFG |-> 56,      CLICK_SRC |-> 57,    CLICK_THS |-> 58,
    TIME_LIMIT |-> 59,     TIME_LATENCY |-> 60, TIME_WINDOW |-> 61,
    ACT_THS |-> 62,        ACT_DUR |-> 63 ]

RegAddrs == {LIS3DE[n] : n \in DOMAIN LIS3DE}

PROPERTY_DISABLE == 0
PROPERTY_ENABLE == 1

lis3de_status_reg_aux_t ==
  [ _1da |-> Bits(0, 1), _2da |-> Bits(1, 1), _3da |-> Bits(2, 1),
    _321da |-> Bits(3, 1), _1or |-> Bits(4, 1), _2or |-> Bits(5, 1),
    _3or |-> Bits(6, 1), _321or |-> Bits(7, 1) ]

lis3de_temp_cfg_reg_t ==
  [ not_used_01 |-> Bits(0, 6), temp_en |-> Bits(6, 1), adc_pd |-> Bits(7, 1) ]

lis3de_ctrl_reg1_t ==
  [ xen |-> Bits(0, 1), yen |-> Bits(1, 1), zen |-> Bits(2, 1),
    lpen |-> Bits(3, 1), odr |-> Bits(4, 4) ]

lis3de_ctrl_reg2_t ==
  [ hp |-> Bits(0, 3), fds |-> Bits(3, 1), hpcf |-> Bits(4, 2),
    hpm |-> Bits(6, 2) ]

lis3de_ctrl_reg4_t ==
  [ sim |-> Bits(0, 1), st |-> Bits(1, 2), not_used_01 |-> Bits(3, 1),
    fs |-> Bits(4, 2), not_used_02 |-> Bits(6, 1), bdu |-> Bits(7, 1) ]

lis3de_ctrl_reg5_t ==
  [ d4d_ig2 |-> Bits(0, 1), lir_ig2 |-> Bits(1, 1), d4d_ig1 |-> Bits(2, 1),
    lir_ig1 |-> Bits(3, 1), not_used_01 |-> Bits(4, 2),
    fifo_en |-> Bits(6, 1), boot |-> Bits(7, 1) ]

lis3de_status_reg_t ==
  [ xda |-> Bits(0, 1), yda |-> Bits(1, 1), zda |-> Bits(2, 1),
    zyxda |-> Bits(3, 1), _xor |-> Bits(4, 1), yor |-> Bits(5, 1),
    zor |-> Bits(6, 1), zyxor |-> Bits(7, 1) ]

lis3de_fifo_ctrl_reg_t ==
  [ fth |-> Bits(0, 5), tr |-> Bits(5, 1), fm |-> Bits(6, 2) ]

lis3de_fifo_src_reg_t ==
  [ fss |-> Bits(0, 5), empty |-> Bits(5, 1), ovrn_fifo |-> Bits(6, 1),
    wtm |-> Bits(7, 1) ]

lis3de_ig1_ths_t == [ ths |-> Bits(0, 7), not_used_01 |-> Bits(7, 1) ]

lis3de_ig1_duration_t == [ d |-> Bits(0, 7), not_used_01 |-> Bits(7, 1) ]

lis3de_ig2_ths_t == [ ths |-> Bits(0, 7), not_used_01 |-> Bits(7, 1) ]

lis3de_ig2_duration_t == [ d |-> Bits(0, 7), not_used_01 |-> Bits(7, 1) ]

lis3de_click_ths_t == [ ths |-> Bits(0, 7), lir |-> Bits(7, 1) ]

lis3de_time_limit_t == [ tli |-> Bits(0, 7), not_used_01 |-> Bits(7, 1) ]

lis3de_time_latency_t == [ tla |-> Bits(0, 8) ]

lis3de_time_window_t == [ tw |-> Bits(0, 8) ]

lis3de_act_ths_t == [ acth |-> Bits(0, 7), not_used_01 |-> Bits(7, 1) ]

lis3de_act_dur_t == [ actd |-> Bits(0, 8) ]

lis3de_temp_en_t ==
  [ LIS3DE_AUX_DISABLE |-> 0, LIS3DE_AUX_ON_TEMPERATURE |-> 3,
    LIS3DE_AUX_ON_PADS |-> 1 ]

lis3de_op_md_t == [ LIS3DE_LP |-> 1, LIS3DE_NM |-> 0 ]

lis3de_odr_t ==
  [ LIS3DE_POWER_DOWN |-> 0, LIS3DE_ODR_1Hz |-> 1, LIS3DE_ODR_10Hz |-> 2,
    LIS3DE_ODR_25Hz |-> 3, LIS3DE_ODR_50Hz |-> 4, LIS3DE_ODR_100Hz |-> 5,
    LIS3DE_ODR_200Hz |-> 6, LIS3DE_ODR_400Hz |-> 7, LIS3DE_ODR_1kHz6 |-> 8,
    LIS3DE_ODR_5kHz376_LP_1kHz344_NM |-> 9 ]

lis3de_hpcf_t ==
  [ LIS3DE_AGGRESSIVE |-> 0, LIS3DE_STRONG |-> 1, LIS3DE_MEDIUM |-> 2,
    LIS3DE_LIGHT |-> 3 ]

lis3de_hpm_t ==
  [ LIS3DE_NORMAL_WITH_RST |-> 0, LIS3DE_REFERENCE_MODE |-> 1,
    LIS3DE_NORMAL |-> 2, LIS3DE_AUTORST_ON_INT |-> 3 ]

lis3de_fs_t ==
  [ LIS3DE_2g |-> 0, LIS3DE_4g |-> 1, LIS3DE_8g |-> 2, LIS3DE_16g |-> 3 ]

lis3de_st_t ==
  [ LIS3DE_ST_DISABLE |-> 0, LIS3DE_ST_POSITIVE |-> 1,
    LIS3DE_ST_NEGATIVE |-> 2 ]

lis3de_hp_t ==
  [ LIS3DE_DISC_FROM_INT_GENERATOR |-> 0, LIS3DE_ON_INT1_GEN |-> 1,
    LIS3DE_ON_INT2_GEN |-> 2, LIS3DE_ON_TAP_GEN |-> 4,
    LIS3DE_ON_INT1_INT2_GEN |-> 3, LIS3DE_ON_INT1_TAP_GEN |-> 5,
    LIS3DE_ON_INT2_TAP_GEN |-> 6, LIS3DE_ON_INT1_INT2_TAP_GEN |-> 7 ]

lis3de_lir_int2_t == [ LIS3DE_INT2_PULSED |-> 0, LIS3DE_INT2_LATCHED |-> 1 ]

lis3de_lir_int1_t == [ LIS3DE_INT1_PULSED |-> 0, LIS3DE_INT1_LATCHED |-> 1 ]

lis3de_tr_t == [ LIS3DE_INT1_GEN |-> 0, LIS3DE_INT2_GEN |-> 1 ]

lis3de_fm_t ==
  [ LIS3DE_BYPASS_MODE |-> 0, LIS3DE_FIFO_MODE |-> 1,
    LIS3DE_DYNAMIC_STREAM_MODE |-> 2, LIS3DE_STREAM_TO_FIFO_MODE |-> 3 ]

lis3de_lir_t == [ LIS3DE_TAP_PULSED |-> 0, LIS3DE_TAP_LATCHED |-> 1 ]

lis3de_sim_t == [ LIS3DE_SPI_4_WIRE |-> 0, LIS3DE_SPI_3_WIRE |-> 1 ]

\* The members of an enumeration.
Members(enum) == {enum[n] : n \in DOMAIN enum}

(***************************************************************************)
(* The transport.  A machine m = [regs, trace] is the register file and    *)
(* the transport calls recorded so far during one accessor call.           *)
(***************************************************************************)
\* Non-zero statuses a failing transport returns.
FailCodes == {-1, 3}

\* What a buffer may hold where its content is indeterminate: an
\* uninitialized local, or a buffer after a failed read.
GarbageBytes == {0, 255}

\* The statuses a transport call may return when it follows one that
\* returned st: the accessors make it only after a 0.
AfterStatus(st) == IF st = 0 THEN ctx.rets ELSE {st}

\* What a read buffer may be left holding by a read returning st; a read
\* returning 0 overwrites it.
LeftBy(st) == IF st = 0 THEN {0} ELSE GarbageBytes

\* The machine at the start of an accessor call.
Begin == [regs |-> regs, trace |-> <<>>]

\* ctx->read_reg(handle, reg, data, len): a transport returning status st.
\* On success it delivers the len consecutive registers from reg; on
\* failure the buffer is left holding junk.  The trace records what the
\* transport is called with and the status it returns.
platform_read(m, handle, reg, junk, len, st) ==
  LET data == IF st = 0 THEN [i \in 1..len |-> m.regs[reg + i - 1]] ELSE junk
  IN  [ regs  |-> m.regs,
        trace |-> Append(m.trace, [op |-> "read", handle |-> handle,
                                   reg |-> reg, len |-> len,
                                   data |-> <<>>, st |-> st]),
        ret   |-> st,
        data  |-> data ]

\* ctx->write_reg(handle, reg, data, len): a storing transport returning
\* status st.  On success the len bytes are stored from reg on; on failure
\* nothing is stored.
platform_write(m, handle, reg, data, len, st) ==
  [ regs  |-> IF st = 0
              THEN [a \in DOMAIN m.regs |->
                      IF a \in reg..(reg + len - 1) THEN data[a - reg + 1]
                      ELSE m.regs[a]]
              ELSE m.regs,
    trace |-> Append(m.trace, [op |-> "write", handle |-> handle,
                               reg |-> reg, len |-> len,
                               data |-> data, st |-> st]),
    ret   |-> st ]

\* Faulty variant of lis3de_read_reg: every failure is reported as -1.
lis3de_read_reg_normalised(m, reg, junk, len, st) ==
  [platform_read(m, ctx.handle, reg, junk, len, st)
     EXCEPT !.ret = IF st = 0 THEN 0 ELSE -1]

\* ret = ctx->read_reg(ctx->handle, reg, data, len); return ret;
lis3de_read_reg(m, reg, junk, len, st) ==
  platform_read(m, ctx.handle, reg, junk, len, st)

\* Faulty variant of lis3de_write_reg: returns 0 without calling the
\* transport.
lis3de_write_reg_dropped(m, reg, data, len, st) ==
  [regs |-> m.regs, trace |-> m.trace, ret |-> 0]

\* ret = ctx->write_reg(ctx->handle, reg, data, len); return ret;
lis3de_write_reg(m, reg, data, len, st) ==
  platform_write(m, ctx.handle, reg, data, len, st)

\* The accessor fn, called with val, returns r leaving machine m and the
\* caller's output object o.
Return(fn, val, m, r, o) ==
  /\ regs' = m.regs
  /\ trace' = m.trace
  /\ ret' = r
  /\ out' = o
  /\ call' = [fn |-> fn, val |-> val]
  /\ UNCHANGED <<ctx, thread, history>>

\* Values a caller passes for a uint8_t argument written to a bitfield of
\* the given width: in and out of the field's range.
U8Vals(len) ==
  {0, 1, 2 ^ len - 1} \cup (IF len < 8 THEN {2 ^ len + 1, 255} ELSE {})

\* Bytes a caller passes where a whole register is written.
RegVals == {0, 165, 255}

(***************************************************************************)
(* The accessor shapes the source repeats.  The transport's statuses and   *)
(* the indeterminate bytes are inputs of every call.                       *)
(***************************************************************************)
\* Faulty variant of ReadModifyWrite: the write is issued whatever the
\* read returned.
ReadModifyWriteUnguarded(m, reg, f, val, st1, st2, g) ==
  LET rd == lis3de_read_reg(m, reg, <<g>>, 1, st1)
  IN  lis3de_write_reg(rd, reg, <<FieldSet(rd.data[1], f, val)>>, 1, st2)

\* Faulty variant of ReadModifyWrite: the struct is written without having
\* been read.
ReadModifyWriteBlind(m, reg, f, val, st1, st2, g) ==
  lis3de_write_reg(m, reg, <<FieldSet(0, f, val)>>, 1, st2)

\* [set] of one bitfield: read the register, assign the field, write back.
\*   ret = lis3de_read_reg(ctx, REG, (uint8_t *)&reg, 1);
\*   if (ret == 0) { reg.field = val; ret = lis3de_write_reg(ctx, REG, ...); }
\* The machine it leaves, with its return status in ret.
ReadModifyWrite(m, reg, f, val, st1, st2, g) ==
  LET rd == lis3de_read_reg(m, reg, <<g>>, 1, st1)
      wr == lis3de_write_reg(rd, reg, <<FieldSet(rd.data[1], f, val)>>, 1, st2)
  IN  IF rd.ret = 0 THEN wr ELSE rd

SetBitfield(fn, reg, f, vals) ==
  \E val \in vals, st1 \in ctx.rets :
  \E st2 \in AfterStatus(st1), g \in LeftBy(st1) :
    LET m == ReadModifyWrite(Begin, reg, f, val, st1, st2, g)
    IN  Return(fn, val, m, m.ret, <<>>)

\* Faulty variant of GetBitfield: the register is cleared once read.
GetBitfieldClearing(fn, reg, f) ==
  \E st1 \in ctx.rets : \E g \in LeftBy(st1) :
    LET rd == lis3de_read_reg(Begin, reg, <<g>>, 1, st1)
        wr == lis3de_write_reg(rd, reg, <<0>>, 1, 0)
    IN  Return(fn, 0, wr, rd.ret, <<FieldGet(rd.data[1], f)>>)

\* [get] of one bitfield, assigned whatever the read returned.
\*   ret = lis3de_read_reg(ctx, REG, (uint8_t *)&reg, 1);
\*   *val = reg.field;
GetBitfield(fn, reg, f) ==
  \E st1 \in ctx.rets : \E g \in LeftBy(st1) :
    LET rd == lis3de_read_reg(Begin, reg, <<g>>, 1, st1)
    IN  Return(fn, 0, rd, rd.ret, <<FieldGet(rd.data[1], f)>>)

\* Faulty variant of Decode: every code takes the default branch.
DecodeDefaulted(code, cases, default) == default

\* Faulty variant of Decode: the code is passed through.
DecodeRaw(code, cases, default) == code

\* The switch of an enumerated [get]: a listed code decodes to itself, any
\* other code to the default.
Decode(code, cases, default) == IF code \in cases THEN code ELSE default

\* Faulty variant of GetEnum: the field is output as it is read.
GetEnumRaw(fn, reg, f, cases, default) == GetBitfield(fn, reg, f)

\* [get] of an enumerated bitfield, decoded whatever the read returned.
\*   ret = lis3de_read_reg(ctx, REG, (uint8_t *)&reg, 1);
\*   switch (reg.field) { case A: *val = A; break; ... default: *val = D; }
GetEnum(fn, reg, f, cases, default) ==
  \E st1 \in ctx.rets : \E g \in LeftBy(st1) :
    LET rd == lis3de_read_reg(Begin, reg, <<g>>, 1, st1)
    IN  Return(fn, 0, rd, rd.ret,
               <<Decode(FieldGet(rd.data[1], f), cases, default)>>)

\* Faulty variant of GetRegister: it returns 0 without calling the
\* transport, leaving the caller's object as it was.
GetRegisterUnread(fn, reg) ==
  Return(fn, 0, Begin, 0, <<Prior(1)>>)

\* [get] of a whole register, read into the caller's object.
\*   ret = lis3de_read_reg(ctx, REG, (uint8_t *) val, 1);
GetRegister(fn, reg) ==
  \E st1 \in ctx.rets : \E g \in LeftBy(st1) \cup {Prior(1)} :
    LET rd == lis3de_read_reg(Begin, reg, <<g>>, 1, st1)
    IN  Return(fn, 0, rd, rd.ret, rd.data)

\* Faulty variant of SetRegister: the register is read before it is
\* written.
SetRegisterAfterRead(fn, reg) ==
  \E val \in RegVals, st1 \in ctx.rets :
    LET rd == lis3de_read_reg(Begin, reg, <<0>>, 1, 0)
        wr == lis3de_write_reg(rd, reg, <<val>>, 1, st1)
    IN  Return(fn, val, wr, wr.ret, <<>>)

\* [set] of a whole register, written from the caller's object.
\*   ret = lis3de_write_reg(ctx, REG, (uint8_t *) val, 1);
SetRegister(fn, reg) ==
  \E val \in RegVals, st1 \in ctx.rets :
    LET wr == lis3de_write_reg(Begin, reg, <<val>>, 1, st1)
    IN  Return(fn, val, wr, wr.ret, <<>>)

(***************************************************************************)
(* The accessors of lis3de_reg.c that follow one of the shapes above.      *)
(***************************************************************************)
lis3de_temp_status_reg_get ==
  GetRegister("lis3de_temp_status_reg_get", LIS3DE.STATUS_REG_AUX)

lis3de_temp_data_ready_get ==
  GetBitfield("lis3de_temp_data_ready_get", LIS3DE.STATUS_REG_AUX,
              lis3de_status_reg_aux_t._3da)

lis3de_temp_data_ovr_get ==
  GetBitfield("lis3de_temp_data_ovr_get", LIS3DE.STATUS_REG_AUX,
              lis3de_status_reg_aux_t._3or)

lis3de_temperature_raw_get ==
  GetRegister("lis3de_temperature_raw_get", LIS3DE.OUT_ADC1_H)

lis3de_operating_mode_set ==
  SetBitfield("lis3de_operating_mode_set", LIS3DE.CTRL_REG1,
              lis3de_ctrl_reg1_t.lpen, Members(lis3de_op_md_t))

lis3de_data_rate_set ==
  SetBitfield("lis3de_data_rate_set", LIS3DE.CTRL_REG1,
              lis3de_ctrl_reg1_t.odr, Members(lis3de_odr_t))

lis3de_data_rate_get ==
  GetEnum("lis3de_data_rate_get", LIS3DE.CTRL_REG1,
          lis3de_ctrl_reg1_t.odr,
      {lis3de_odr_t.LIS3DE_POWER_DOWN,
       lis3de_odr_t.LIS3DE_ODR_1Hz,
       lis3de_odr_t.LIS3DE_ODR_10Hz,
       lis3de_odr_t.LIS3DE_ODR_25Hz,
       lis3de_odr_t.LIS3DE_ODR_50Hz,
       lis3de_odr_t.LIS3DE_ODR_100Hz,
       lis3de_odr_t.LIS3DE_ODR_200Hz,
       lis3de_odr_t.LIS3DE_ODR_400Hz,
       lis3de_odr_t.LIS3DE_ODR_1kHz6,
       lis3de_odr_t.LIS3DE_ODR_5kHz376_LP_1kHz344_NM},
      lis3de_odr_t.LIS3DE_POWER_DOWN)

lis3de_high_pass_on_outputs_set ==
  SetBitfield("lis3de_high_pass_on_outputs_set", LIS3DE.CTRL_REG2,
              lis3de_ctrl_reg2_t.fds, U8Vals(lis3de_ctrl_reg2_t.fds.len))

lis3de_high_pass_on_outputs_get ==
  GetBitfield("lis3de_high_pass_on_outputs_get", LIS3DE.CTRL_REG2,
              lis3de_ctrl_reg2_t.fds)

lis3de_high_pass_bandwidth_set ==
  SetBitfield("lis3de_high_pass_bandwidth_set", LIS3DE.CTRL_REG2,
              lis3de_ctrl_reg2_t.hpcf, Members(lis3de_hpcf_t))

lis3de_high_pass_bandwidth_get ==
  GetEnum("lis3de_high_pass_bandwidth_get", LIS3DE.CTRL_REG2,
          lis3de_ctrl_reg2_t.hpcf,
      {lis3de_hpcf_t.LIS3DE_AGGRESSIVE,
       lis3de_hpcf_t.LIS3DE_STRONG,
       lis3de_hpcf_t.LIS3DE_MEDIUM,
       lis3de_hpcf_t.LIS3DE_LIGHT},
      lis3de_hpcf_t.LIS3DE_LIGHT)

lis3de_high_pass_mode_set ==
  SetBitfield("lis3de_high_pass_mode_set", LIS3DE.CTRL_REG2,
              lis3de_ctrl_reg2_t.hpm, Members(lis3de_hpm_t))

lis3de_high_pass_mode_get ==
  GetEnum("lis3de_high_pass_mode_get", LIS3DE.CTRL_REG2,
          lis3de_ctrl_reg2_t.hpm,
      {lis3de_hpm_t.LIS3DE_NORMAL_WITH_RST,
       lis3de_hpm_t.LIS3DE_REFERENCE_MODE,
       lis3de_hpm_t.LIS3DE_NORMAL,
       lis3de_hpm_t.LIS3DE_AUTORST_ON_INT},
      lis3de_hpm_t.LIS3DE_NORMAL_WITH_RST)

lis3de_full_scale_set ==
  SetBitfield("lis3de_full_scale_set", LIS3DE.CTRL_REG4,
              lis3de_ctrl_reg4_t.fs, Members(lis3de_fs_t))

lis3de_full_scale_get ==
  GetEnum("lis3de_full_scale_get", LIS3DE.CTRL_REG4,
          lis3de_ctrl_reg4_t.fs,
      {lis3de_fs_t.LIS3DE_2g,
       lis3de_fs_t.LIS3DE_4g,
       lis3de_fs_t.LIS3DE_8g,
       lis3de_fs_t.LIS3DE_16g},
      lis3de_fs_t.LIS3DE_2g)

lis3de_block_data_update_set ==
  SetBitfield("lis3de_block_data_update_set", LIS3DE.CTRL_REG4,
              lis3de_ctrl_reg4_t.bdu, U8Vals(lis3de_ctrl_reg4_t.bdu.len))

lis3de_block_data_update_get ==
  GetBitfield("lis3de_block_data_update_get", LIS3DE.CTRL_REG4,
              lis3de_ctrl_reg4_t.bdu)

lis3de_filter_reference_set ==
  SetRegister("lis3de_filter_reference_set", LIS3DE.REFERENCE)

lis3de_filter_reference_get ==
  GetRegister("lis3de_filter_reference_get", LIS3DE.REFERENCE)

lis3de_xl_data_ready_get ==
  GetBitfield("lis3de_xl_data_ready_get", LIS3DE.STATUS_REG,
              lis3de_status_reg_t.zyxda)

lis3de_xl_data_ovr_get ==
  GetBitfield("lis3de_xl_data_ovr_get", LIS3DE.STATUS_REG,
              lis3de_status_reg_t.zyxor)

lis3de_device_id_get ==
  GetRegister("lis3de_device_id_get", LIS3DE.WHO_AM_I)

lis3de_self_test_set ==
  SetBitfield("lis3de_self_test_set", LIS3DE.CTRL_REG4,
              lis3de_ctrl_reg4_t.st, Members(lis3de_st_t))

lis3de_self_test_get ==
  GetEnum("lis3de_self_test_get", LIS3DE.CTRL_REG4,
          lis3de_ctrl_reg4_t.st,
      {lis3de_st_t.LIS3DE_ST_DISABLE,
       lis3de_st_t.LIS3DE_ST_POSITIVE,
       lis3de_st_t.LIS3DE_ST_NEGATIVE},
      lis3de_st_t.LIS3DE_ST_DISABLE)

lis3de_boot_set ==
  SetBitfield("lis3de_boot_set", LIS3DE.CTRL_REG5,
              lis3de_ctrl_reg5_t.boot, U8Vals(lis3de_ctrl_reg5_t.boot.len))

lis3de_boot_get ==
  GetBitfield("lis3de_boot_get", LIS3DE.CTRL_REG5,
              lis3de_ctrl_reg5_t.boot)

lis3de_status_get ==
  GetRegister("lis3de_status_get", LIS3DE.STATUS_REG)

lis3de_int1_gen_conf_set ==
  SetRegister("lis3de_int1_gen_conf_set", LIS3DE.IG1_CFG)

lis3de_int1_gen_conf_get ==
  GetRegister("lis3de_int1_gen_conf_get", LIS3DE.IG1_CFG)

lis3de_int1_gen_source_get ==
  GetRegister("lis3de_int1_gen_source_get", LIS3DE.IG1_SOURCE)

lis3de_int1_gen_threshold_set ==
  SetBitfield("lis3de_int1_gen_threshold_set", LIS3DE.IG1_THS,
              lis3de_ig1_ths_t.ths, U8Vals(lis3de_ig1_ths_t.ths.len))

lis3de_int1_gen_threshold_get ==
  GetBitfield("lis3de_int1_gen_threshold_get", LIS3DE.IG1_THS,
              lis3de_ig1_ths_t.ths)

lis3de_int1_gen_duration_set ==
  SetBitfield("lis3de_int1_gen_duration_set", LIS3DE.IG1_DURATION,
              lis3de_ig1_duration_t.d, U8Vals(lis3de_ig1_duration_t.d.len))

lis3de_int1_gen_duration_get ==
  GetBitfield("lis3de_int1_gen_duration_get", LIS3DE.IG1_DURATION,
              lis3de_ig1_duration_t.d)

lis3de_int2_gen_conf_set ==
  SetRegister("lis3de_int2_gen_conf_set", LIS3DE.IG2_CFG)

lis3de_int2_gen_conf_get ==
  GetRegister("lis3de_int2_gen_conf_get", LIS3DE.IG2_CFG)

lis3de_int2_gen_source_get ==
  GetRegister("lis3de_int2_gen_source_get", LIS3DE.IG2_SOURCE)

lis3de_int2_gen_threshold_set ==
  SetBitfield("lis3de_int2_gen_threshold_set", LIS3DE.IG2_THS,
              lis3de_ig2_ths_t.ths, U8Vals(lis3de_ig2_ths_t.ths.len))

lis3de_int2_gen_threshold_get ==
  GetBitfield("lis3de_int2_gen_threshold_get", LIS3DE.IG2_THS,
              lis3de_ig2_ths_t.ths)

lis3de_int2_gen_duration_set ==
  SetBitfield("lis3de_int2_gen_duration_set", LIS3DE.IG2_DURATION,
              lis3de_ig2_duration_t.d, U8Vals(lis3de_ig2_duration_t.d.len))

lis3de_int2_gen_duration_get ==
  GetBitfield("lis3de_int2_gen_duration_get", LIS3DE.IG2_DURATION,
              lis3de_ig2_duration_t.d)

lis3de_high_pass_int_conf_set ==
  SetBitfield("lis3de_high_pass_int_conf_set", LIS3DE.CTRL_REG2,
              lis3de_ctrl_reg2_t.hp, Members(lis3de_hp_t))

lis3de_high_pass_int_conf_get ==
  GetEnum("lis3de_high_pass_int_conf_get", LIS3DE.CTRL_REG2,
          lis3de_ctrl_reg2_t.hp,
      {lis3de_hp_t.LIS3DE_DISC_FROM_INT_GENERATOR,
       lis3de_hp_t.LIS3DE_ON_INT1_GEN,
       lis3de_hp_t.LIS3DE_ON_INT2_GEN,
       lis3de_hp_t.LIS3DE_ON_TAP_GEN,
       lis3de_hp_t.LIS3DE_ON_INT1_INT2_GEN,
       lis3de_hp_t.LIS3DE_ON_INT1_TAP_GEN,
       lis3de_hp_t.LIS3DE_ON_INT2_TAP_GEN,
       lis3de_hp_t.LIS3DE_ON_INT1_INT2_TAP_GEN},
      lis3de_hp_t.LIS3DE_DISC_FROM_INT_GENERATOR)

lis3de_pin_int1_config_set ==
  SetRegister("lis3de_pin_int1_config_set", LIS3DE.CTRL_REG3)

lis3de_pin_int1_config_get ==
  GetRegister("lis3de_pin_int1_config_get", LIS3DE.CTRL_REG3)

lis3de_int2_pin_detect_4d_set ==
  SetBitfield("lis3de_int2_pin_detect_4d_set", LIS3DE.CTRL_REG5,
              lis3de_ctrl_reg5_t.d4d_ig2, U8Vals(lis3de_ctrl_reg5_t.d4d_ig2.len))

lis3de_int2_pin_detect_4d_get ==
  GetBitfield("lis3de_int2_pin_detect_4d_get", LIS3DE.CTRL_REG5,
              lis3de_ctrl_reg5_t.d4d_ig2)

lis3de_int2_pin_notification_mode_set ==
  SetBitfield("lis3de_int2_pin_notification_mode_set", LIS3DE.CTRL_REG5,
              lis3de_ctrl_reg5_t.lir_ig2, Members(lis3de_lir_int2_t))

lis3de_int2_pin_notification_mode_get ==
  GetEnum("lis3de_int2_pin_notification_mode_get", LIS3DE.CTRL_REG5,
          lis3de_ctrl_reg5_t.lir_ig2,
      {lis3de_lir_int2_t.LIS3DE_INT2_PULSED,
       lis3de_lir_int2_t.LIS3DE_INT2_LATCHED},
      lis3de_lir_int2_t.LIS3DE_INT2_PULSED)

lis3de_int1_pin_detect_4d_set ==
  SetBitfield("lis3de_int1_pin_detect_4d_set", LIS3DE.CTRL_REG5,
              lis3de_ctrl_reg5_t.d4d_ig1, U8Vals(lis3de_ctrl_reg5_t.d4d_ig1.len))

lis3de_int1_pin_detect_4d_get ==
  GetBitfield("lis3de_int1_pin_detect_4d_get", LIS3DE.CTRL_REG5,
              lis3de_ctrl_reg5_t.d4d_ig1)

lis3de_int1_pin_notification_mode_set ==
  SetBitfield("lis3de_int1_pin_notification_mode_set", LIS3DE.CTRL_REG5,
              lis3de_ctrl_reg5_t.lir_ig1, Members(lis3de_lir_int1_t))

lis3de_int1_pin_notification_mode_get ==
  GetEnum("lis3de_int1_pin_notification_mode_get", LIS3DE.CTRL_REG5,
          lis3de_ctrl_reg5_t.lir_ig1,
      {lis3de_lir_int1_t.LIS3DE_INT1_PULSED,
       lis3de_lir_int1_t.LIS3DE_INT1_LATCHED},
      lis3de_lir_int1_t.LIS3DE_INT1_PULSED)

lis3de_pin_int2_config_set ==
  SetRegister("lis3de_pin_int2_config_set", LIS3DE.CTRL_REG6)

lis3de_pin_int2_config_get ==
  GetRegister("lis3de_pin_int2_config_get", LIS3DE.CTRL_REG6)

lis3de_fifo_set ==
  SetBitfield("lis3de_fifo_set", LIS3DE.CTRL_REG5,
              lis3de_ctrl_reg5_t.fifo_en, U8Vals(lis3de_ctrl_reg5_t.fifo_en.len))

lis3de_fifo_get ==
  GetBitfield("lis3de_fifo_get", LIS3DE.CTRL_REG5,
              lis3de_ctrl_reg5_t.fifo_en)

lis3de_fifo_watermark_set ==
  SetBitfield("lis3de_fifo_watermark_set", LIS3DE.FIFO_CTRL_REG,
              lis3de_fifo_ctrl_reg_t.fth, U8Vals(lis3de_fifo_ctrl_reg_t.fth.len))

lis3de_fifo_watermark_get ==
  GetBitfield("lis3de_fifo_watermark_get", LIS3DE.FIFO_CTRL_REG,
              lis3de_fifo_ctrl_reg_t.fth)

lis3de_fifo_trigger_event_set ==
  SetBitfield("lis3de_fifo_trigger_event_set", LIS3DE.FIFO_CTRL_REG,
              lis3de_fifo_ctrl_reg_t.tr, Members(lis3de_tr_t))

lis3de_fifo_trigger_event_get ==
  GetEnum("lis3de_fifo_trigger_event_get", LIS3DE.FIFO_CTRL_REG,
          lis3de_fifo_ctrl_reg_t.tr,
      {lis3de_tr_t.LIS3DE_INT1_GEN,
       lis3de_tr_t.LIS3DE_INT2_GEN},
      lis3de_tr_t.LIS3DE_INT1_GEN)

lis3de_fifo_mode_set ==
  SetBitfield("lis3de_fifo_mode_set", LIS3DE.FIFO_CTRL_REG,
              lis3de_fifo_ctrl_reg_t.fm, Members(lis3de_fm_t))

lis3de_fifo_mode_get ==
  GetEnum("lis3de_fifo_mode_get", LIS3DE.FIFO_CTRL_REG,
          lis3de_fifo_ctrl_reg_t.fm,
      {lis3de_fm_t.LIS3DE_BYPASS_MODE,
       lis3de_fm_t.LIS3DE_FIFO_MODE,
       lis3de_fm_t.LIS3DE_DYNAMIC_STREAM_MODE,
       lis3de_fm_t.LIS3DE_STREAM_TO_FIFO_MODE},
      lis3de_fm_t.LIS3DE_BYPASS_MODE)

lis3de_fifo_status_get ==
  GetRegister("lis3de_fifo_status_get", LIS3DE.FIFO_SRC_REG)

lis3de_fifo_data_level_get ==
  GetBitfield("lis3de_fifo_data_level_get", LIS3DE.FIFO_SRC_REG,
              lis3de_fifo_src_reg_t.fss)

lis3de_fifo_empty_flag_get ==
  GetBitfield("lis3de_fifo_empty_flag_get", LIS3DE.FIFO_SRC_REG,
              lis3de_fifo_src_reg_t.empty)

lis3de_fifo_ovr_flag_get ==
  GetBitfield("lis3de_fifo_ovr_flag_get", LIS3DE.FIFO_SRC_REG,
              lis3de_fifo_src_reg_t.ovrn_fifo)

lis3de_fifo_fth_flag_get ==
  GetBitfield("lis3de_fifo_fth_flag_get", LIS3DE.FIFO_SRC_REG,
              lis3de_fifo_src_reg_t.wtm)

lis3de_tap_conf_set ==
  SetRegister("lis3de_tap_conf_set", LIS3DE.CLICK_CFG)

lis3de_tap_conf_get ==
  GetRegister("lis3de_tap_conf_get", LIS3DE.CLICK_CFG)

lis3de_tap_source_get ==
  GetRegister("lis3de_tap_source_get", LIS3DE.CLICK_SRC)

lis3de_tap_threshold_set ==
  SetBitfield("lis3de_tap_threshold_set", LIS3DE.CLICK_THS,
              lis3de_click_ths_t.ths, U8Vals(lis3de_click_ths_t.ths.len))

lis3de_tap_threshold_get ==
  GetBitfield("lis3de_tap_threshold_get", LIS3DE.CLICK_THS,
              lis3de_click_ths_t.ths)

lis3de_tap_notification_mode_set ==
  SetBitfield("lis3de_tap_notification_mode_set", LIS3DE.CLICK_THS,
              lis3de_click_ths_t.lir, Members(lis3de_lir_t))

lis3de_tap_notification_mode_get ==
  GetEnum("lis3de_tap_notification_mode_get", LIS3DE.CLICK_THS,
          lis3de_click_ths_t.lir,
      {lis3de_lir_t.LIS3DE_TAP_PULSED,
       lis3de_lir_t.LIS3DE_TAP_LATCHED},
      lis3de_lir_t.LIS3DE_TAP_PULSED)

lis3de_shock_dur_set ==
  SetBitfield("lis3de_shock_dur_set", LIS3DE.TIME_LIMIT,
              lis3de_time_limit_t.tli, U8Vals(lis3de_time_limit_t.tli.len))

lis3de_shock_dur_get ==
  GetBitfield("lis3de_shock_dur_get", LIS3DE.TIME_LIMIT,
              lis3de_time_limit_t.tli)

lis3de_quiet_dur_set ==
  SetBitfield("lis3de_quiet_dur_set", LIS3DE.TIME_LATENCY,
              lis3de_time_latency_t.tla, U8Vals(lis3de_time_latency_t.tla.len))

lis3de_quiet_dur_get ==
  GetBitfield("lis3de_quiet_dur_get", LIS3DE.TIME_LATENCY,
              lis3de_time_latency_t.tla)

lis3de_double_tap_timeout_set ==
  SetBitfield("lis3de_double_tap_timeout_set", LIS3DE.TIME_WINDOW,
              lis3de_time_window_t.tw, U8Vals(lis3de_time_window_t.tw.len))

lis3de_double_tap_timeout_get ==
  GetBitfield("lis3de_double_tap_timeout_get", LIS3DE.TIME_WINDOW,
              lis3de_time_window_t.tw)

lis3de_act_threshold_set ==
  SetBitfield("lis3de_act_threshold_set", LIS3DE.ACT_THS,
              lis3de_act_ths_t.acth, U8Vals(lis3de_act_ths_t.acth.len))

lis3de_act_threshold_get ==
  GetBitfield("lis3de_act_threshold_get", LIS3DE.ACT_THS,
              lis3de_act_ths_t.acth)

lis3de_act_timeout_set ==
  SetBitfield("lis3de_act_timeout_set", LIS3DE.ACT_DUR,
              lis3de_act_dur_t.actd, U8Vals(lis3de_act_dur_t.actd.len))

lis3de_act_timeout_get ==
  GetBitfield("lis3de_act_timeout_get", LIS3DE.ACT_DUR,
              lis3de_act_dur_t.actd)

lis3de_spi_mode_set ==
  SetBitfield("lis3de_spi_mode_set", LIS3DE.CTRL_REG4,
              lis3de_ctrl_reg4_t.sim, Members(lis3de_sim_t))

lis3de_spi_mode_get ==
  GetEnum("lis3de_spi_mode_get", LIS3DE.CTRL_REG4,
          lis3de_ctrl_reg4_t.sim,
      {lis3de_sim_t.LIS3DE_SPI_4_WIRE,
       lis3de_sim_t.LIS3DE_SPI_3_WIRE},
      lis3de_sim_t.LIS3DE_SPI_4_WIRE)

(***************************************************************************)
(* Accessors with a shape of their own.                                    *)
(***************************************************************************)
\* Faulty variant of block_data_update_set: nothing is done.
block_data_update_skipped(m, val, st1, st2, g) ==
  [regs |-> m.regs, trace |-> m.trace, ret |-> 0]

\* lis3de_block_data_update_set(ctx, val) as called from another accessor.
block_data_update_set(m, val, st1, st2, g) ==
  ReadModifyWrite(m, LIS3DE.CTRL_REG4, lis3de_ctrl_reg4_t.bdu, val, st1, st2, g)

lis3de_adc_raw_get ==
  \E st1 \in ctx.rets : \E g \in LeftBy(st1) :
    LET rd   == lis3de_read_reg(Begin, LIS3DE.OUT_ADC1_L, [i \in 1..6 |-> g], 6, st1)
        buff == rd.data
        val0 == Int16(Int16(buff[2]) * 256 + Int16(buff[1]))
        val1 == Int16(Int16(buff[4]) * 256 + Int16(buff[3]))
        val2 == Int16(Int16(buff[6]) * 256 + Int16(buff[5]))
    IN  Return("lis3de_adc_raw_get", 0, rd, rd.ret, <<val0, val1, val2>>)

\* Faulty variant of lis3de_aux_adc_set: block data update is enabled
\* whatever the read of TEMP_CFG_REG returned.
aux_adc_set_unguarded ==
  \E val \in Members(lis3de_temp_en_t), st1 \in ctx.rets :
  \E g \in LeftBy(st1), st2 \in ctx.rets :
  \E g2 \in LeftBy(st2), st3 \in AfterStatus(st2) :
    LET rd  == lis3de_read_reg(Begin, LIS3DE.TEMP_CFG_REG, <<g>>, 1, st1)
        bdu == block_data_update_set(rd, PROPERTY_ENABLE, st2, st3, g2)
    IN  Return("lis3de_aux_adc_set", val, bdu,
               IF rd.ret # 0 THEN rd.ret ELSE bdu.ret, <<>>)

\* Faulty variant of lis3de_aux_adc_set: temp_en takes bit 0 of the mode
\* and adc_pd bit 1.
aux_adc_set_swapped ==
  \E val \in Members(lis3de_temp_en_t), st1 \in ctx.rets :
  \E g \in LeftBy(st1), st2 \in AfterStatus(st1) :
  \E g2 \in LeftBy(st2), st3 \in AfterStatus(st2) :
  \E st4 \in AfterStatus(st3) :
    LET rd  == lis3de_read_reg(Begin, LIS3DE.TEMP_CFG_REG, <<g>>, 1, st1)
        bdu == IF rd.ret = 0 /\ val # lis3de_temp_en_t.LIS3DE_AUX_DISABLE
               THEN block_data_update_set(rd, PROPERTY_ENABLE, st2, st3, g2)
               ELSE rd
        temp_cfg_reg ==
          FieldSet(FieldSet(rd.data[1], lis3de_temp_cfg_reg_t.temp_en, val % 2),
                   lis3de_temp_cfg_reg_t.adc_pd, (val \div 2) % 2)
        wr  == lis3de_write_reg(bdu, LIS3DE.TEMP_CFG_REG, <<temp_cfg_reg>>, 1, st4)
    IN  IF bdu.ret = 0
        THEN Return("lis3de_aux_adc_set", val, wr, wr.ret, <<>>)
        ELSE Return("lis3de_aux_adc_set", val, bdu, bdu.ret, <<>>)

\* Faulty variant of lis3de_aux_adc_set: block data update is enabled for
\* every mode, AUX_DISABLE included.
aux_adc_set_forcing ==
  \E val \in Members(lis3de_temp_en_t), st1 \in ctx.rets :
  \E g \in LeftBy(st1), st2 \in AfterStatus(st1) :
  \E g2 \in LeftBy(st2), st3 \in AfterStatus(st2) :
  \E st4 \in AfterStatus(st3) :
    LET rd  == lis3de_read_reg(Begin, LIS3DE.TEMP_CFG_REG, <<g>>, 1, st1)
        bdu == IF rd.ret = 0
               THEN block_data_update_set(rd, PROPERTY_ENABLE, st2, st3, g2)
               ELSE rd
        temp_cfg_reg ==
          FieldSet(FieldSet(rd.data[1], lis3de_temp_cfg_reg_t.temp_en,
                            (val \div 2) % 2),
                   lis3de_temp_cfg_reg_t.adc_pd, val % 2)
        wr  == lis3de_write_reg(bdu, LIS3DE.TEMP_CFG_REG, <<temp_cfg_reg>>, 1, st4)
    IN  IF bdu.ret = 0
        THEN Return("lis3de_aux_adc_set", val, wr, wr.ret, <<>>)
        ELSE Return("lis3de_aux_adc_set", val, bdu, bdu.ret, <<>>)

\* Faulty variant of lis3de_aux_adc_set: when the write of TEMP_CFG_REG
\* fails, CTRL_REG4 is written back as it was found.
aux_adc_set_rollback ==
  \E val \in Members(lis3de_temp_en_t), st1 \in ctx.rets :
  \E g \in LeftBy(st1), st2 \in AfterStatus(st1) :
  \E g2 \in LeftBy(st2), st3 \in AfterStatus(st2) :
  \E st4 \in AfterStatus(st3) :
    LET rd  == lis3de_read_reg(Begin, LIS3DE.TEMP_CFG_REG, <<g>>, 1, st1)
        bdu == IF rd.ret = 0 /\ val # lis3de_temp_en_t.LIS3DE_AUX_DISABLE
               THEN block_data_update_set(rd, PROPERTY_ENABLE, st2, st3, g2)
               ELSE rd
        temp_cfg_reg ==
          FieldSet(FieldSet(rd.data[1], lis3de_temp_cfg_reg_t.temp_en,
                            (val \div 2) % 2),
                   lis3de_temp_cfg_reg_t.adc_pd, val % 2)
        wr  == lis3de_write_reg(bdu, LIS3DE.TEMP_CFG_REG, <<temp_cfg_reg>>, 1, st4)
        undo == lis3de_write_reg(wr, LIS3DE.CTRL_REG4,
                                 <<rd.regs[LIS3DE.CTRL_REG4]>>, 1, 0)
    IN  IF bdu.ret = 0
        THEN IF wr.ret = 0
             THEN Return("lis3de_aux_adc_set", val, wr, wr.ret, <<>>)
             ELSE Return("lis3de_aux_adc_set", val, undo, wr.ret, <<>>)
        ELSE Return("lis3de_aux_adc_set", val, bdu, bdu.ret, <<>>)

lis3de_aux_adc_set ==
  \E val \in Members(lis3de_temp_en_t), st1 \in ctx.rets :
  \E g \in LeftBy(st1), st2 \in AfterStatus(st1) :
  \E g2 \in LeftBy(st2), st3 \in AfterStatus(st2) :
  \E st4 \in AfterStatus(st3) :
    LET rd  == lis3de_read_reg(Begin, LIS3DE.TEMP_CFG_REG, <<g>>, 1, st1)
        bdu == IF rd.ret = 0 /\ val # lis3de_temp_en_t.LIS3DE_AUX_DISABLE
               THEN block_data_update_set(rd, PROPERTY_ENABLE, st2, st3, g2)
               ELSE rd
        temp_cfg_reg ==
          FieldSet(FieldSet(rd.data[1], lis3de_temp_cfg_reg_t.temp_en,
                            (val \div 2) % 2),
                   lis3de_temp_cfg_reg_t.adc_pd, val % 2)
        wr  == lis3de_write_reg(bdu, LIS3DE.TEMP_CFG_REG, <<temp_cfg_reg>>, 1, st4)
    IN  IF bdu.ret = 0
        THEN Return("lis3de_aux_adc_set", val, wr, wr.ret, <<>>)
        ELSE Return("lis3de_aux_adc_set", val, bdu, bdu.ret, <<>>)

lis3de_aux_adc_get ==
  \E st1 \in ctx.rets : \E g \in LeftBy(st1) :
    LET rd      == lis3de_read_reg(Begin, LIS3DE.TEMP_CFG_REG, <<g>>, 1, st1)
        temp_en == FieldGet(rd.data[1], lis3de_temp_cfg_reg_t.temp_en)
        adc_pd  == FieldGet(rd.data[1], lis3de_temp_cfg_reg_t.adc_pd)
        \* if ((temp_en & adc_pd) == PROPERTY_ENABLE) *val = ON_TEMPERATURE;
        val1    == IF temp_en * adc_pd = PROPERTY_ENABLE
                   THEN lis3de_temp_en_t.LIS3DE_AUX_ON_TEMPERATURE
                   ELSE Prior(1)
        \* if (temp_en == DISABLE && adc_pd == ENABLE) *val = ON_PADS;
        \* else *val = AUX_DISABLE;
        val2    == IF temp_en = PROPERTY_DISABLE /\ adc_pd = PROPERTY_ENABLE
                   THEN lis3de_temp_en_t.LIS3DE_AUX_ON_PADS
                   ELSE lis3de_temp_en_t.LIS3DE_AUX_DISABLE
    IN  Return("lis3de_aux_adc_get", 0, rd, rd.ret, <<val2>>)

\* Faulty variant of lis3de_operating_mode_get: the output is assigned
\* whatever the read returned.
operating_mode_get_unguarded ==
  \E st1 \in ctx.rets : \E g \in LeftBy(st1) :
    LET rd == lis3de_read_reg(Begin, LIS3DE.CTRL_REG1, <<g>>, 1, st1)
        val == IF FieldGet(rd.data[1], lis3de_ctrl_reg1_t.lpen) = PROPERTY_ENABLE
               THEN lis3de_op_md_t.LIS3DE_LP
               ELSE lis3de_op_md_t.LIS3DE_NM
    IN  Return("lis3de_operating_mode_get", 0, rd, rd.ret, <<val>>)

lis3de_operating_mode_get ==
  \E st1 \in ctx.rets : \E g \in LeftBy(st1) :
    LET rd == lis3de_read_reg(Begin, LIS3DE.CTRL_REG1, <<g>>, 1, st1)
        val == IF rd.ret = 0
               THEN IF FieldGet(rd.data[1], lis3de_ctrl_reg1_t.lpen) = PROPERTY_ENABLE
                    THEN lis3de_op_md_t.LIS3DE_LP
                    ELSE lis3de_op_md_t.LIS3DE_NM
               ELSE Prior(1)
    IN  Return("lis3de_operating_mode_get", 0, rd, rd.ret, <<val>>)

\* What dummy holds after a failed read: what it held, or garbage.
AfterFailedRead(held, keep, g) == IF keep THEN held ELSE <<g>>

\* Faulty variant of lis3de_acceleration_raw_get: the three reads are
\* issued whatever the earlier ones returned.
acceleration_raw_get_unguarded ==
  \E st1 \in ctx.rets, st2 \in ctx.rets, st3 \in ctx.rets, g \in GarbageBytes :
    LET rx == lis3de_read_reg(Begin, LIS3DE.OUT_X, <<g>>, 1, st1)
        ry == lis3de_read_reg(rx, LIS3DE.OUT_Y, <<g>>, 1, st2)
        rz == lis3de_read_reg(ry, LIS3DE.OUT_Z, <<g>>, 1, st3)
    IN  Return("lis3de_acceleration_raw_get", 0, rz, rz.ret,
               <<Int8(rx.data[1]), Int8(ry.data[1]), Int8(rz.data[1])>>)

lis3de_acceleration_raw_get ==
  \E st1 \in ctx.rets, dummy \in GarbageBytes, keep \in BOOLEAN, g \in GarbageBytes :
  \E st2 \in AfterStatus(st1) :
  \E st3 \in AfterStatus(st2) :
    LET rx    == lis3de_read_reg(Begin, LIS3DE.OUT_X,
                                 AfterFailedRead(<<dummy>>, keep, g), 1, st1)
        buff0 == Int8(rx.data[1])
        ry    == lis3de_read_reg(rx, LIS3DE.OUT_Y,
                                 AfterFailedRead(rx.data, keep, g), 1, st2)
        buff1 == Int8(ry.data[1])
        rz    == lis3de_read_reg(ry, LIS3DE.OUT_Z,
                                 AfterFailedRead(ry.data, keep, g), 1, st3)
        buff2 == Int8(rz.data[1])
    IN  IF rx.ret # 0
        THEN Return("lis3de_acceleration_raw_get", 0, rx, rx.ret,
                    <<buff0, Prior(2), Prior(3)>>)
        ELSE IF ry.ret # 0
        THEN Return("lis3de_acceleration_raw_get", 0, ry, ry.ret,
                    <<buff0, buff1, Prior(3)>>)
        ELSE Return("lis3de_acceleration_raw_get", 0, rz, rz.ret,
                    <<buff0, buff1, buff2>>)

(***************************************************************************)
(* Sessions.  A session is a bounded run of accessor calls by one caller   *)
(* against one device.                                                     *)
(***************************************************************************)
Addr == 0..63

\* The register file a session starts from: every byte differs from its
\* neighbours, and the seeds put each register on different bit patterns.
StartFile(seed) == [a \in Addr |-> (seed * SeedStride + a) % 256]

\* stmdev_ctx_t: the handle the caller registered, and the statuses its
\* read_reg / write_reg may return.
Faulty  == [handle |-> 1, rets |-> {0} \cup FailCodes]
Storing == [handle |-> 1, rets |-> {0}]

NoCall == [fn |-> "none", val |-> 0]

\* Callers that may run setters concurrently, and a caller that is in none.
Callers == {1, 2}

Idle == [pc |-> "idle", fn |-> "none", val |-> 0, byte |-> 0, ret |-> 0,
         rd |-> 0, wr |-> 0]

InitWith(c, files) ==
  /\ ctx = c
  /\ regs \in files
  /\ ncalls = 0
  /\ call = NoCall
  /\ ret = 0
  /\ out = <<>>
  /\ trace = <<>>
  /\ thread = [k \in Callers |-> Idle]
  /\ history = <<>>

\* The caller goes on while its calls succeed and the session lasts.
Charged == ncalls < MaxCalls /\ ret = 0 /\ ncalls' = ncalls + 1
Opening == ncalls = 0 /\ ncalls' = ncalls + 1
Free    == UNCHANGED ncalls

Init == InitWith(Faulty, {StartFile(s) : s \in 0..(NumSeeds - 1)})

Next ==
  \/ Charged /\ lis3de_temp_status_reg_get
  \/ Charged /\ lis3de_temp_data_ready_get
  \/ Charged /\ lis3de_temp_data_ovr_get
  \/ Charged /\ lis3de_temperature_raw_get
  \/ Charged /\ lis3de_adc_raw_get
  \/ Charged /\ lis3de_aux_adc_set
  \/ Charged /\ lis3de_aux_adc_get
  \/ Charged /\ lis3de_operating_mode_set
  \/ Charged /\ lis3de_operating_mode_get
  \/ Charged /\ lis3de_data_rate_set
  \/ Charged /\ lis3de_data_rate_get
  \/ Charged /\ lis3de_high_pass_on_outputs_set
  \/ Charged /\ lis3de_high_pass_on_outputs_get
  \/ Charged /\ lis3de_high_pass_bandwidth_set
  \/ Charged /\ lis3de_high_pass_bandwidth_get
  \/ Charged /\ lis3de_high_pass_mode_set
  \/ Charged /\ lis3de_high_pass_mode_get
  \/ Charged /\ lis3de_full_scale_set
  \/ Charged /\ lis3de_full_scale_get
  \/ Charged /\ lis3de_block_data_update_set
  \/ Charged /\ lis3de_block_data_update_get
  \/ Charged /\ lis3de_filter_reference_set
  \/ Charged /\ lis3de_filter_reference_get
  \/ Charged /\ lis3de_xl_data_ready_get
  \/ Charged /\ lis3de_xl_data_ovr_get
  \/ Charged /\ lis3de_acceleration_raw_get
  \/ Charged /\ lis3de_device_id_get
  \/ Charged /\ lis3de_self_test_set
  \/ Charged /\ lis3de_self_test_get
  \/ Charged /\ lis3de_boot_set
  \/ Charged /\ lis3de_boot_get
  \/ Charged /\ lis3de_status_get
  \/ Charged /\ lis3de_int1_gen_conf_set
  \/ Charged /\ lis3de_int1_gen_conf_get
  \/ Charged /\ lis3de_int1_gen_source_get
  \/ Charged /\ lis3de_int1_gen_threshold_set
  \/ Charged /\ lis3de_int1_gen_threshold_get
  \/ Charged /\ lis3de_int1_gen_duration_set
  \/ Charged /\ lis3de_int1_gen_duration_get
  \/ Charged /\ lis3de_int2_gen_conf_set
  \/ Charged /\ lis3de_int2_gen_conf_get
  \/ Charged /\ lis3de_int2_gen_source_get
  \/ Charged /\ lis3de_int2_gen_threshold_set
  \/ Charged /\ lis3de_int2_gen_threshold_get
  \/ Charged /\ lis3de_int2_gen_duration_set
  \/ Charged /\ lis3de_int2_gen_duration_get
  \/ Charged /\ lis3de_high_pass_int_conf_set
  \/ Charged /\ lis3de_high_pass_int_conf_get
  \/ Charged /\ lis3de_pin_int1_config_set
  \/ Charged /\ lis3de_pin_int1_config_get
  \/ Charged /\ lis3de_int2_pin_detect_4d_set
  \/ Charged /\ lis3de_int2_pin_detect_4d_get
  \/ Charged /\ lis3de_int2_pin_notification_mode_set
  \/ Charged /\ lis3de_int2_pin_notification_mode_get
  \/ Charged /\ lis3de_int1_pin_detect_4d_set
  \/ Charged /\ lis3de_int1_pin_detect_4d_get
  \/ Charged /\ lis3de_int1_pin_notification_mode_set
  \/ Charged /\ lis3de_int1_pin_notification_mode_get
  \/ Charged /\ lis3de_pin_int2_config_set
  \/ Charged /\ lis3de_pin_int2_config_get
  \/ Charged /\ lis3de_fifo_set
  \/ Charged /\ lis3de_fifo_get
  \/ Charged /\ lis3de_fifo_watermark_set
  \/ Charged /\ lis3de_fifo_watermark_get
  \/ Charged /\ lis3de_fifo_trigger_event_set
  \/ Charged /\ lis3de_fifo_trigger_event_get
  \/ Charged /\ lis3de_fifo_mode_set
  \/ Charged /\ lis3de_fifo_mode_get
  \/ Charged /\ lis3de_fifo_status_get
  \/ Charged /\ lis3de_fifo_data_level_get
  \/ Charged /\ lis3de_fifo_empty_flag_get
  \/ Charged /\ lis3de_fifo_ovr_flag_get
  \/ Charged /\ lis3de_fifo_fth_flag_get
  \/ Charged /\ lis3de_tap_conf_set
  \/ Charged /\ lis3de_tap_conf_get
  \/ Charged /\ lis3de_tap_source_get
  \/ Charged /\ lis3de_tap_threshold_set
  \/ Charged /\ lis3de_tap_threshold_get
  \/ Charged /\ lis3de_tap_notification_mode_set
  \/ Charged /\ lis3de_tap_notification_mode_get
  \/ Charged /\ lis3de_shock_dur_set
  \/ Charged /\ lis3de_shock_dur_get
  \/ Charged /\ lis3de_quiet_dur_set
  \/ Charged /\ lis3de_quiet_dur_get
  \/ Charged /\ lis3de_double_tap_timeout_set
  \/ Charged /\ lis3de_double_tap_timeout_get
  \/ Charged /\ lis3de_act_threshold_set
  \/ Charged /\ lis3de_act_threshold_get
  \/ Charged /\ lis3de_act_timeout_set
  \/ Charged /\ lis3de_act_timeout_get
  \/ Charged /\ lis3de_spi_mode_set
  \/ Charged /\ lis3de_spi_mode_get

Spec == Init /\ [][Next]_vars

\* A caller on a transport that stores what is written and never fails:
\* it opens the session with one setter and then reads back.
InitStoring == InitWith(Storing, {StartFile(s) : s \in 0..(NumSeeds - 1)})

NextStoring ==
  \/ Free    /\ lis3de_temp_status_reg_get
  \/ Free    /\ lis3de_temp_data_ready_get
  \/ Free    /\ lis3de_temp_data_ovr_get
  \/ Free    /\ lis3de_temperature_raw_get
  \/ Free    /\ lis3de_adc_raw_get
  \/ Opening /\ lis3de_aux_adc_set
  \/ Free    /\ lis3de_aux_adc_get
  \/ Opening /\ lis3de_operating_mode_set
  \/ Free    /\ lis3de_operating_mode_get
  \/ Opening /\ lis3de_data_rate_set
  \/ Free    /\ lis3de_data_rate_get
  \/ Opening /\ lis3de_high_pass_on_outputs_set
  \/ Free    /\ lis3de_high_pass_on_outputs_get
  \/ Opening /\ lis3de_high_pass_bandwidth_set
  \/ Free    /\ lis3de_high_pass_bandwidth_get
  \/ Opening /\ lis3de_high_pass_mode_set
  \/ Free    /\ lis3de_high_pass_mode_get
  \/ Opening /\ lis3de_full_scale_set
  \/ Free    /\ lis3de_full_scale_get
  \/ Opening /\ lis3de_block_data_update_set
  \/ Free    /\ lis3de_block_data_update_get
  \/ Opening /\ lis3de_filter_reference_set
  \/ Free    /\ lis3de_filter_reference_get
  \/ Free    /\ lis3de_xl_data_ready_get
  \/ Free    /\ lis3de_xl_data_ovr_get
  \/ Free    /\ lis3de_acceleration_raw_get
  \/ Free    /\ lis3de_device_id_get
  \/ Opening /\ lis3de_self_test_set
  \/ Free    /\ lis3de_self_test_get
  \/ Opening /\ lis3de_boot_set
  \/ Free    /\ lis3de_boot_get
  \/ Free    /\ lis3de_status_get
  \/ Opening /\ lis3de_int1_gen_conf_set
  \/ Free    /\ lis3de_int1_gen_conf_get
  \/ Free    /\ lis3de_int1_gen_source_get
  \/ Opening /\ lis3de_int1_gen_threshold_set
  \/ Free    /\ lis3de_int1_gen_threshold_get
  \/ Opening /\ lis3de_int1_gen_duration_set
  \/ Free    /\ lis3de_int1_gen_duration_get
  \/ Opening /\ lis3de_int2_gen_conf_set
  \/ Free    /\ lis3de_int2_gen_conf_get
  \/ Free    /\ lis3de_int2_gen_source_get
  \/ Opening /\ lis3de_int2_gen_threshold_set
  \/ Free    /\ lis3de_int2_gen_threshold_get
  \/ Opening /\ lis3de_int2_gen_duration_set
  \/ Free    /\ lis3de_int2_gen_duration_get
  \/ Opening /\ lis3de_high_pass_int_conf_set
  \/ Free    /\ lis3de_high_pass_int_conf_get
  \/ Opening /\ lis3de_pin_int1_config_set
  \/ Free    /\ lis3de_pin_int1_config_get
  \/ Opening /\ lis3de_int2_pin_detect_4d_set
  \/ Free    /\ lis3de_int2_pin_detect_4d_get
  \/ Opening /\ lis3de_int2_pin_notification_mode_set
  \/ Free    /\ lis3de_int2_pin_notification_mode_get
  \/ Opening /\ lis3de_int1_pin_detect_4d_set
  \/ Free    /\ lis3de_int1_pin_detect_4d_get
  \/ Opening /\ lis3de_int1_pin_notification_mode_set
  \/ Free    /\ lis3de_int1_pin_notification_mode_get
  \/ Opening /\ lis3de_pin_int2_config_set
  \/ Free    /\ lis3de_pin_int2_config_get
  \/ Opening /\ lis3de_fifo_set
  \/ Free    /\ lis3de_fifo_get
  \/ Opening /\ lis3de_fifo_watermark_set
  \/ Free    /\ lis3de_fifo_watermark_get
  \/ Opening /\ lis3de_fifo_trigger_event_set
  \/ Free    /\ lis3de_fifo_trigger_event_get
  \/ Opening /\ lis3de_fifo_mode_set
  \/ Free    /\ lis3de_fifo_mode_get
  \/ Free    /\ lis3de_fifo_status_get
  \/ Free    /\ lis3de_fifo_data_level_get
  \/ Free    /\ lis3de_fifo_empty_flag_get
  \/ Free    /\ lis3de_fifo_ovr_flag_get
  \/ Free    /\ lis3de_fifo_fth_flag_get
  \/ Opening /\ lis3de_tap_conf_set
  \/ Free    /\ lis3de_tap_conf_get
  \/ Free    /\ lis3de_tap_source_get
  \/ Opening /\ lis3de_tap_threshold_set
  \/ Free    /\ lis3de_tap_threshold_get
  \/ Opening /\ lis3de_tap_notification_mode_set
  \/ Free    /\ lis3de_tap_notification_mode_get
  \/ Opening /\ lis3de_shock_dur_set
  \/ Free    /\ lis3de_shock_dur_get
  \/ Opening /\ lis3de_quiet_dur_set
  \/ Free    /\ lis3de_quiet_dur_get
  \/ Opening /\ lis3de_double_tap_timeout_set
  \/ Free    /\ lis3de_double_tap_timeout_get
  \/ Opening /\ lis3de_act_threshold_set
  \/ Free    /\ lis3de_act_threshold_get
  \/ Opening /\ lis3de_act_timeout_set
  \/ Free    /\ lis3de_act_timeout_get
  \/ Opening /\ lis3de_spi_mode_set
  \/ Free    /\ lis3de_spi_mode_get

SpecStoring == InitStoring /\ [][NextStoring]_vars

\* The ADC output registers under conversion results of either sign.
AdcBytes(i) == {i, 128 + i, 255}

AdcFile(b) ==
  [a \in Addr |-> IF a \in LIS3DE.OUT_ADC1_L..LIS3DE.OUT_ADC3_H
                  THEN b[a - LIS3DE.OUT_ADC1_L + 1]
                  ELSE StartFile(0)[a]]

InitAdc ==
  InitWith(Faulty,
           {AdcFile(<<b1, b2, b3, b4, b5, b6>>) :
              b1 \in AdcBytes(1), b2 \in AdcBytes(2), b3 \in AdcBytes(3),
              b4 \in AdcBytes(4), b5 \in AdcBytes(5), b6 \in AdcBytes(6)})

NextAdc == Free /\ lis3de_adc_raw_get

SpecAdc == InitAdc /\ [][NextAdc]_vars

(***************************************************************************)
(* Sessions of the enumerated getters on a device whose registers hold     *)
(* any byte.                                                               *)
(***************************************************************************)
ByteFile(b) == [a \in Addr |-> b]

InitDecode == InitWith(Faulty, {ByteFile(b) : b \in 0..255})

NextDecode ==
  \/ Free /\ lis3de_aux_adc_get
  \/ Free /\ lis3de_operating_mode_get
  \/ Free /\ lis3de_data_rate_get
  \/ Free /\ lis3de_high_pass_bandwidth_get
  \/ Free /\ lis3de_high_pass_mode_get
  \/ Free /\ lis3de_full_scale_get
  \/ Free /\ lis3de_self_test_get
  \/ Free /\ lis3de_high_pass_int_conf_get
  \/ Free /\ lis3de_int2_pin_notification_mode_get
  \/ Free /\ lis3de_int1_pin_notification_mode_get
  \/ Free /\ lis3de_fifo_trigger_event_get
  \/ Free /\ lis3de_fifo_mode_get
  \/ Free /\ lis3de_tap_notification_mode_get
  \/ Free /\ lis3de_spi_mode_get

SpecDecode == InitDecode /\ [][NextDecode]_vars

\* The bytes where the sign changes: the largest positive sample and the
\* smallest negative one.
EdgeBytes == {127, 128}

\* A register file with the three axis registers holding x, y and z.
AxisFile(x, y, z) ==
  [StartFile(0) EXCEPT ![LIS3DE.OUT_X] = x, ![LIS3DE.OUT_Y] = y,
                       ![LIS3DE.OUT_Z] = z]

\* Every byte on each axis, with every pair of edge bytes on the other two.
AxisFiles ==
  {AxisFile(b, p, q) : b \in 0..255, p \in EdgeBytes, q \in EdgeBytes}
    \cup {AxisFile(p, b, q) : b \in 0..255, p \in EdgeBytes, q \in EdgeBytes}
    \cup {AxisFile(p, q, b) : b \in 0..255, p \in EdgeBytes, q \in EdgeBytes}

\* One call of acceleration_raw_get on a transport that may fail.
InitAccel == InitWith(Faulty, AxisFiles)

NextAccel == Opening /\ lis3de_acceleration_raw_get

SpecAccel == InitAccel /\ [][NextAccel]_vars

(***************************************************************************)
(* The two wrappers called directly, beside the accessors, on contexts     *)
(* with different handles.                                                 *)
(***************************************************************************)
\* Handles a caller may have registered in the context.
Handles == {1, 2}

\* Registers and lengths a caller passes to the wrappers.
WrapRegs == {LIS3DE.WHO_AM_I, LIS3DE.CTRL_REG4, LIS3DE.OUT_ADC1_L}

WrapLens == {1, 2}

\* Faulty variant of lis3de_read_reg_direct: the transport is handed a
\* null handle.
lis3de_read_reg_unhandled ==
  \E reg \in WrapRegs, len \in WrapLens, st \in ctx.rets : \E g \in LeftBy(st) :
    LET rd == platform_read(Begin, 0, reg, [i \in 1..len |-> g], len, st)
    IN  Return("lis3de_read_reg", reg, rd, rd.ret, rd.data)

\* lis3de_read_reg(ctx, reg, data, len) called by the application; the
\* output is the caller's buffer.
lis3de_read_reg_direct ==
  \E reg \in WrapRegs, len \in WrapLens, st \in ctx.rets : \E g \in LeftBy(st) :
    LET rd == lis3de_read_reg(Begin, reg, [i \in 1..len |-> g], len, st)
    IN  Return("lis3de_read_reg", reg, rd, rd.ret, rd.data)

\* lis3de_write_reg(ctx, reg, data, len) called by the application; the
\* output is the caller's buffer, which the call leaves as it was.
lis3de_write_reg_direct ==
  \E reg \in WrapRegs, len \in WrapLens, b \in RegVals, st \in ctx.rets :
    LET data == [i \in 1..len |-> (b + i - 1) % 256]
        wr   == lis3de_write_reg(Begin, reg, data, len, st)
    IN  Return("lis3de_write_reg", reg, wr, wr.ret, data)

InitWrap ==
  \E h \in Handles :
    InitWith([Faulty EXCEPT !.handle = h], {StartFile(0), StartFile(1)})

NextWrap ==
  \/ Next
  \/ Charged /\ lis3de_read_reg_direct
  \/ Charged /\ lis3de_write_reg_direct

SpecWrap == InitWrap /\ [][NextWrap]_vars

(***************************************************************************)
(* The read-modify-write setters of one bitfield, each with the getter of  *)
(* the same field, the register and field it patches and the values the    *)
(* field is documented to take.                                            *)
(***************************************************************************)
Unsigned(len) == 0..(2 ^ len - 1)

Bitfields == {
  [ set |-> "lis3de_operating_mode_set",
    get |-> "lis3de_operating_mode_get",
    reg |-> LIS3DE.CTRL_REG1, field |-> lis3de_ctrl_reg1_t.lpen,
    legal |-> Members(lis3de_op_md_t) ],
  [ set |-> "lis3de_data_rate_set",
    get |-> "lis3de_data_rate_get",
    reg |-> LIS3DE.CTRL_REG1, field |-> lis3de_ctrl_reg1_t.odr,
    legal |-> Members(lis3de_odr_t) ],
  [ set |-> "lis3de_high_pass_on_outputs_set",
    get |-> "lis3de_high_pass_on_outputs_get",
    reg |-> LIS3DE.CTRL_REG2, field |-> lis3de_ctrl_reg2_t.fds,
    legal |-> Unsigned(lis3de_ctrl_reg2_t.fds.len) ],
  [ set |-> "lis3de_high_pass_bandwidth_set",
    get |-> "lis3de_high_pass_bandwidth_get",
    reg |-> LIS3DE.CTRL_REG2, field |-> lis3de_ctrl_reg2_t.hpcf,
    legal |-> Members(lis3de_hpcf_t) ],
  [ set |-> "lis3de_high_pass_mode_set",
    get |-> "lis3de_high_pass_mode_get",
    reg |-> LIS3DE.CTRL_REG2, field |-> lis3de_ctrl_reg2_t.hpm,
    legal |-> Members(lis3de_hpm_t) ],
  [ set |-> "lis3de_full_scale_set",
    get |-> "lis3de_full_scale_get",
    reg |-> LIS3DE.CTRL_REG4, field |-> lis3de_ctrl_reg4_t.fs,
    legal |-> Members(lis3de_fs_t) ],
  [ set |-> "lis3de_block_data_update_set",
    get |-> "lis3de_block_data_update_get",
    reg |-> LIS3DE.CTRL_REG4, field |-> lis3de_ctrl_reg4_t.bdu,
    legal |-> Unsigned(lis3de_ctrl_reg4_t.bdu.len) ],
  [ set |-> "lis3de_self_test_set",
    get |-> "lis3de_self_test_get",
    reg |-> LIS3DE.CTRL_REG4, field |-> lis3de_ctrl_reg4_t.st,
    legal |-> Members(lis3de_st_t) ],
  [ set |-> "lis3de_boot_set",
    get |-> "lis3de_boot_get",
    reg |-> LIS3DE.CTRL_REG5, field |-> lis3de_ctrl_reg5_t.boot,
    legal |-> Unsigned(lis3de_ctrl_reg5_t.boot.len) ],
  [ set |-> "lis3de_int1_gen_threshold_set",
    get |-> "lis3de_int1_gen_threshold_get",
    reg |-> LIS3DE.IG1_THS, field |-> lis3de_ig1_ths_t.ths,
    legal |-> Unsigned(lis3de_ig1_ths_t.ths.len) ],
  [ set |-> "lis3de_int1_gen_duration_set",
    get |-> "lis3de_int1_gen_duration_get",
    reg |-> LIS3DE.IG1_DURATION, field |-> lis3de_ig1_duration_t.d,
    legal |-> Unsigned(lis3de_ig1_duration_t.d.len) ],
  [ set |-> "lis3de_int2_gen_threshold_set",
    get |-> "lis3de_int2_gen_threshold_get",
    reg |-> LIS3DE.IG2_THS, field |-> lis3de_ig2_ths_t.ths,
    legal |-> Unsigned(lis3de_ig2_ths_t.ths.len) ],
  [ set |-> "lis3de_int2_gen_duration_set",
    get |-> "lis3de_int2_gen_duration_get",
    reg |-> LIS3DE.IG2_DURATION, field |-> lis3de_ig2_duration_t.d,
    legal |-> Unsigned(lis3de_ig2_duration_t.d.len) ],
  [ set |-> "lis3de_high_pass_int_conf_set",
    get |-> "lis3de_high_pass_int_conf_get",
    reg |-> LIS3DE.CTRL_REG2, field |-> lis3de_ctrl_reg2_t.hp,
    legal |-> Members(lis3de_hp_t) ],
  [ set |-> "lis3de_int2_pin_detect_4d_set",
    get |-> "lis3de_int2_pin_detect_4d_get",
    reg |-> LIS3DE.CTRL_REG5, field |-> lis3de_ctrl_reg5_t.d4d_ig2,
    legal |-> Unsigned(lis3de_ctrl_reg5_t.d4d_ig2.len) ],
  [ set |-> "lis3de_int2_pin_notification_mode_set",
    get |-> "lis3de_int2_pin_notification_mode_get",
    reg |-> LIS3DE.CTRL_REG5, field |-> lis3de_ctrl_reg5_t.lir_ig2,
    legal |-> Members(lis3de_lir_int2_t) ],
  [ set |-> "lis3de_int1_pin_detect_4d_set",
    get |-> "lis3de_int1_pin_detect_4d_get",
    reg |-> LIS3DE.CTRL_REG5, field |-> lis3de_ctrl_reg5_t.d4d_ig1,
    legal |-> Unsigned(lis3de_ctrl_reg5_t.d4d_ig1.len) ],
  [ set |-> "lis3de_int1_pin_notification_mode_set",
    get |-> "lis3de_int1_pin_notification_mode_get",
    reg |-> LIS3DE.CTRL_REG5, field |-> lis3de_ctrl_reg5_t.lir_ig1,
    legal |-> Members(lis3de_lir_int1_t) ],
  [ set |-> "lis3de_fifo_set",
    get |-> "lis3de_fifo_get",
    reg |-> LIS3DE.CTRL_REG5, field |-> lis3de_ctrl_reg5_t.fifo_en,
    legal |-> Unsigned(lis3de_ctrl_reg5_t.fifo_en.len) ],
  [ set |-> "lis3de_fifo_watermark_set",
    get |-> "lis3de_fifo_watermark_get",
    reg |-> LIS3DE.FIFO_CTRL_REG, field |-> lis3de_fifo_ctrl_reg_t.fth,
    legal |-> Unsigned(lis3de_fifo_ctrl_reg_t.fth.len) ],
  [ set |-> "lis3de_fifo_trigger_event_set",
    get |-> "lis3de_fifo_trigger_event_get",
    reg |-> LIS3DE.FIFO_CTRL_REG, field |-> lis3de_fifo_ctrl_reg_t.tr,
    legal |-> Members(lis3de_tr_t) ],
  [ set |-> "lis3de_fifo_mode_set",
    get |-> "lis3de_fifo_mode_get",
    reg |-> LIS3DE.FIFO_CTRL_REG, field |-> lis3de_fifo_ctrl_reg_t.fm,
    legal |-> Members(lis3de_fm_t) ],
  [ set |-> "lis3de_tap_threshold_set",
    get |-> "lis3de_tap_threshold_get",
    reg |-> LIS3DE.CLICK_THS, field |-> lis3de_click_ths_t.ths,
    legal |-> Unsigned(lis3de_click_ths_t.ths.len) ],
  [ set |-> "lis3de_tap_notification_mode_set",
    get |-> "lis3de_tap_notification_mode_get",
    reg |-> LIS3DE.CLICK_THS, field |-> lis3de_click_ths_t.lir,
    legal |-> Members(lis3de_lir_t) ],
  [ set |-> "lis3de_shock_dur_set",
    get |-> "lis3de_shock_dur_get",
    reg |-> LIS3DE.TIME_LIMIT, field |-> lis3de_time_limit_t.tli,
    legal |-> Unsigned(lis3de_time_limit_t.tli.len) ],
  [ set |-> "lis3de_quiet_dur_set",
    get |-> "lis3de_quiet_dur_get",
    reg |-> LIS3DE.TIME_LATENCY, field |-> lis3de_time_latency_t.tla,
    legal |-> Unsigned(lis3de_time_latency_t.tla.len) ],
  [ set |-> "lis3de_double_tap_timeout_set",
    get |-> "lis3de_double_tap_timeout_get",
    reg |-> LIS3DE.TIME_WINDOW, field |-> lis3de_time_window_t.tw,
    legal |-> Unsigned(lis3de_time_window_t.tw.len) ],
  [ set |-> "lis3de_act_threshold_set",
    get |-> "lis3de_act_threshold_get",
    reg |-> LIS3DE.ACT_THS, field |-> lis3de_act_ths_t.acth,
    legal |-> Unsigned(lis3de_act_ths_t.acth.len) ],
  [ set |-> "lis3de_act_timeout_set",
    get |-> "lis3de_act_timeout_get",
    reg |-> LIS3DE.ACT_DUR, field |-> lis3de_act_dur_t.actd,
    legal |-> Unsigned(lis3de_act_dur_t.actd.len) ],
  [ set |-> "lis3de_spi_mode_set",
    get |-> "lis3de_spi_mode_get",
    reg |-> LIS3DE.CTRL_REG4, field |-> lis3de_ctrl_reg4_t.sim,
    legal |-> Members(lis3de_sim_t) ] }

(***************************************************************************)
(* The getters that decode a bitfield through a switch, each with its      *)
(* register and field, the enumeration it outputs, the codes its switch    *)
(* has a case for and the enumerator of its default branch.                *)
(***************************************************************************)
SwitchGetters == {
  [ get |-> "lis3de_data_rate_get",
    reg |-> LIS3DE.CTRL_REG1, field |-> lis3de_ctrl_reg1_t.odr,
    enum |-> Members(lis3de_odr_t),
    cases |-> { lis3de_odr_t.LIS3DE_POWER_DOWN, lis3de_odr_t.LIS3DE_ODR_1Hz, 
               lis3de_odr_t.LIS3DE_ODR_10Hz, lis3de_odr_t.LIS3DE_ODR_25Hz, 
               lis3de_odr_t.LIS3DE_ODR_50Hz, lis3de_odr_t.LIS3DE_ODR_100Hz, 
               lis3de_odr_t.LIS3DE_ODR_200Hz, lis3de_odr_t.LIS3DE_ODR_400Hz, 
               lis3de_odr_t.LIS3DE_ODR_1kHz6, 
               lis3de_odr_t.LIS3DE_ODR_5kHz376_LP_1kHz344_NM },
    default |-> lis3de_odr_t.LIS3DE_POWER_DOWN ],
  [ get |-> "lis3de_high_pass_bandwidth_get",
    reg |-> LIS3DE.CTRL_REG2, field |-> lis3de_ctrl_reg2_t.hpcf,
    enum |-> Members(lis3de_hpcf_t),
    cases |-> { lis3de_hpcf_t.LIS3DE_AGGRESSIVE, lis3de_hpcf_t.LIS3DE_STRONG, 
               lis3de_hpcf_t.LIS3DE_MEDIUM, lis3de_hpcf_t.LIS3DE_LIGHT },
    default |-> lis3de_hpcf_t.LIS3DE_LIGHT ],
  [ get |-> "lis3de_high_pass_mode_get",
    reg |-> LIS3DE.CTRL_REG2, field |-> lis3de_ctrl_reg2_t.hpm,
    enum |-> Members(lis3de_hpm_t),
    cases |-> { lis3de_hpm_t.LIS3DE_NORMAL_WITH_RST, 
               lis3de_hpm_t.LIS3DE_REFERENCE_MODE, 
               lis3de_hpm_t.LIS3DE_NORMAL, 
               lis3de_hpm_t.LIS3DE_AUTORST_ON_INT },
    default |-> lis3de_hpm_t.LIS3DE_NORMAL_WITH_RST ],
  [ get |-> "lis3de_full_scale_get",
    reg |-> LIS3DE.CTRL_REG4, field |-> lis3de_ctrl_reg4_t.fs,
    enum |-> Members(lis3de_fs_t),
    cases |-> { lis3de_fs_t.LIS3DE_2g, lis3de_fs_t.LIS3DE_4g, 
               lis3de_fs_t.LIS3DE_8g, lis3de_fs_t.LIS3DE_16g },
    default |-> lis3de_fs_t.LIS3DE_2g ],
  [ get |-> "lis3de_self_test_get",
    reg |-> LIS3DE.CTRL_REG4, field |-> lis3de_ctrl_reg4_t.st,
    enum |-> Members(lis3de_st_t),
    cases |-> { lis3de_st_t.LIS3DE_ST_DISABLE, 
               lis3de_st_t.LIS3DE_ST_POSITIVE, 
               lis3de_st_t.LIS3DE_ST_NEGATIVE },
    default |-> lis3de_st_t.LIS3DE_ST_DISABLE ],
  [ get |-> "lis3de_high_pass_int_conf_get",
    reg |-> LIS3DE.CTRL_REG2, field |-> lis3de_ctrl_reg2_t.hp,
    enum |-> Members(lis3de_hp_t),
    cases |-> { lis3de_hp_t.LIS3DE_DISC_FROM_INT_GENERATOR, 
               lis3de_hp_t.LIS3DE_ON_INT1_GEN, 
               lis3de_hp_t.LIS3DE_ON_INT2_GEN, 
               lis3de_hp_t.LIS3DE_ON_TAP_GEN, 
               lis3de_hp_t.LIS3DE_ON_INT1_INT2_GEN, 
               lis3de_hp_t.LIS3DE_ON_INT1_TAP_GEN, 
               lis3de_hp_t.LIS3DE_ON_INT2_TAP_GEN, 
               lis3de_hp_t.LIS3DE_ON_INT1_INT2_TAP_GEN },
    default |-> lis3de_hp_t.LIS3DE_DISC_FROM_INT_GENERATOR ],
  [ get |-> "lis3de_int2_pin_notification_mode_get",
    reg |-> LIS3DE.CTRL_REG5, field |-> lis3de_ctrl_reg5_t.lir_ig2,
    enum |-> Members(lis3de_lir_int2_t),
    cases |-> { lis3de_lir_int2_t.LIS3DE_INT2_PULSED, 
               lis3de_lir_int2_t.LIS3DE_INT2_LATCHED },
    default |-> lis3de_lir_int2_t.LIS3DE_INT2_PULSED ],
  [ get |-> "lis3de_int1_pin_notification_mode_get",
    reg |-> LIS3DE.CTRL_REG5, field |-> lis3de_ctrl_reg5_t.lir_ig1,
    enum |-> Members(lis3de_lir_int1_t),
    cases |-> { lis3de_lir_int1_t.LIS3DE_INT1_PULSED, 
               lis3de_lir_int1_t.LIS3DE_INT1_LATCHED },
    default |-> lis3de_lir_int1_t.LIS3DE_INT1_PULSED ],
  [ get |-> "lis3de_fifo_trigger_event_get",
    reg |-> LIS3DE.FIFO_CTRL_REG, field |-> lis3de_fifo_ctrl_reg_t.tr,
    enum |-> Members(lis3de_tr_t),
    cases |-> { lis3de_tr_t.LIS3DE_INT1_GEN, lis3de_tr_t.LIS3DE_INT2_GEN },
    default |-> lis3de_tr_t.LIS3DE_INT1_GEN ],
  [ get |-> "lis3de_fifo_mode_get",
    reg |-> LIS3DE.FIFO_CTRL_REG, field |-> lis3de_fifo_ctrl_reg_t.fm,
    enum |-> Members(lis3de_fm_t),
    cases |-> { lis3de_fm_t.LIS3DE_BYPASS_MODE, lis3de_fm_t.LIS3DE_FIFO_MODE, 
               lis3de_fm_t.LIS3DE_DYNAMIC_STREAM_MODE, 
               lis3de_fm_t.LIS3DE_STREAM_TO_FIFO_MODE },
    default |-> lis3de_fm_t.LIS3DE_BYPASS_MODE ],
  [ get |-> "lis3de_tap_notification_mode_get",
    reg |-> LIS3DE.CLICK_THS, field |-> lis3de_click_ths_t.lir,
    enum |-> Members(lis3de_lir_t),
    cases |-> { lis3de_lir_t.LIS3DE_TAP_PULSED, 
               lis3de_lir_t.LIS3DE_TAP_LATCHED },
    default |-> lis3de_lir_t.LIS3DE_TAP_PULSED ],
  [ get |-> "lis3de_spi_mode_get",
    reg |-> LIS3DE.CTRL_REG4, field |-> lis3de_ctrl_reg4_t.sim,
    enum |-> Members(lis3de_sim_t),
    cases |-> { lis3de_sim_t.LIS3DE_SPI_4_WIRE, 
               lis3de_sim_t.LIS3DE_SPI_3_WIRE },
    default |-> lis3de_sim_t.LIS3DE_SPI_4_WIRE ] }

\* Every getter whose output is an enumeration.
EnumGetters ==
  {[get |-> x.get, enum |-> x.enum] : x \in SwitchGetters}
    \cup {[get |-> "lis3de_aux_adc_get", enum |-> Members(lis3de_temp_en_t)],
          [get |-> "lis3de_operating_mode_get", enum |-> Members(lis3de_op_md_t)]}

\* The setters that write a whole register from the caller's byte, each
\* with the getter of the same register.
WholeRegisters == {
  [ set |-> "lis3de_filter_reference_set",
    get |-> "lis3de_filter_reference_get",
    reg |-> LIS3DE.REFERENCE ],
  [ set |-> "lis3de_int1_gen_conf_set",
    get |-> "lis3de_int1_gen_conf_get",
    reg |-> LIS3DE.IG1_CFG ],
  [ set |-> "lis3de_int2_gen_conf_set",
    get |-> "lis3de_int2_gen_conf_get",
    reg |-> LIS3DE.IG2_CFG ],
  [ set |-> "lis3de_pin_int1_config_set",
    get |-> "lis3de_pin_int1_config_get",
    reg |-> LIS3DE.CTRL_REG3 ],
  [ set |-> "lis3de_pin_int2_config_set",
    get |-> "lis3de_pin_int2_config_get",
    reg |-> LIS3DE.CTRL_REG6 ],
  [ set |-> "lis3de_tap_conf_set",
    get |-> "lis3de_tap_conf_get",
    reg |-> LIS3DE.CLICK_CFG ] }

(***************************************************************************)
(* Two callers running setters on the same register with nothing to        *)
(* serialize them: a setter's read and its write are separate steps, and   *)
(* the other caller's transport calls may fall between them.               *)
(***************************************************************************)
\* The setters of the bitfields of CTRL_REG4.
RaceSetters == {x \in Bitfields : x.reg = LIS3DE.CTRL_REG4}

Bitfield(fn) == CHOOSE x \in Bitfields : x.set = fn

\* The device and the transport calls issued so far.
Now == [regs |-> regs, trace |-> trace]

\* Caller c calls a setter.
Enter(c) ==
  /\ thread[c].pc = "idle"
  /\ \E x \in RaceSetters : \E val \in x.legal :
       thread' = [thread EXCEPT ![c] = [Idle EXCEPT !.pc = "read",
                                                    !.fn = x.set,
                                                    !.val = val]]
  /\ UNCHANGED <<ctx, regs, ncalls, call, ret, out, trace, history>>

\* Faulty variant of ReadStep: the register struct is left zeroed instead
\* of holding the byte read.
ReadStepBlind(c) ==
  /\ thread[c].pc = "read"
  /\ LET rd == lis3de_read_reg(Now, Bitfield(thread[c].fn).reg, <<0>>, 1, 0)
     IN  /\ regs' = rd.regs
         /\ trace' = rd.trace
         /\ thread' = [thread EXCEPT ![c].pc = "write",
                                     ![c].rd = Len(rd.trace)]
  /\ UNCHANGED <<ctx, ncalls, call, ret, out, history>>

\* ret = lis3de_read_reg(ctx, REG, (uint8_t *)&reg, 1);
ReadStep(c) ==
  /\ thread[c].pc = "read"
  /\ \E st \in ctx.rets : \E g \in LeftBy(st) :
       LET rd == lis3de_read_reg(Now, Bitfield(thread[c].fn).reg, <<g>>, 1, st)
       IN  /\ regs' = rd.regs
           /\ trace' = rd.trace
           /\ thread' = [thread EXCEPT
                           ![c].pc = IF rd.ret = 0 THEN "write" ELSE "done",
                           ![c].byte = rd.data[1],
                           ![c].ret = rd.ret,
                           ![c].rd = Len(rd.trace)]
  /\ UNCHANGED <<ctx, ncalls, call, ret, out, history>>

\* if (ret == 0) { reg.field = val; ret = lis3de_write_reg(ctx, REG, ...); }
\* return ret;
WriteStep(c) ==
  /\ thread[c].pc = "write"
  /\ \E st \in ctx.rets :
       LET x  == Bitfield(thread[c].fn)
           wr == lis3de_write_reg(Now, x.reg,
                                  <<FieldSet(thread[c].byte, x.field, thread[c].val)>>,
                                  1, st)
       IN  /\ regs' = wr.regs
           /\ trace' = wr.trace
           /\ thread' = [thread EXCEPT ![c].pc = "done",
                                       ![c].ret = wr.ret,
                                       ![c].wr = Len(wr.trace)]
  /\ UNCHANGED <<ctx, ncalls, call, ret, out, history>>

InitRace == InitWith(Faulty, {StartFile(s) : s \in 0..(NumSeeds - 1)})

NextRace ==
  \/ \E c \in Callers : Enter(c)
  \/ \E c \in Callers : ReadStep(c)
  \/ \E c \in Callers : WriteStep(c)

SpecRace == InitRace /\ [][NextRace]_vars

(***************************************************************************)
(* Serialized use: single-bitfield setters called one after the other on   *)
(* a transport that stores and never fails.  The session keeps the log of  *)
(* the calls made.                                                         *)
(***************************************************************************)
\* Setter calls of one serialized session.
SerialCalls == 3

\* The setters of the session: the four bitfields of CTRL_REG4 that have
\* one, and operating_mode_set on CTRL_REG1.
SerialSetters ==
  {x \in Bitfields : x.reg = LIS3DE.CTRL_REG4
                       \/ x.set = "lis3de_operating_mode_set"}

\* Faulty variant of SerialSet: the struct written is built on the byte
\* the register held when the session started.
SerialSetStale(x) ==
  /\ ncalls < SerialCalls
  /\ \E val \in x.legal, s \in 0..(NumSeeds - 1) :
       LET wr == lis3de_write_reg(Begin, x.reg,
                                  <<FieldSet(StartFile(s)[x.reg], x.field, val)>>, 1, 0)
       IN  /\ regs' = wr.regs
           /\ trace' = wr.trace
           /\ ret' = wr.ret
           /\ call' = [fn |-> x.set, val |-> val]
           /\ history' = Append(history, [fn |-> x.set, val |-> val])
  /\ out' = <<>>
  /\ ncalls' = ncalls + 1
  /\ UNCHANGED <<ctx, thread>>

\* The setter of row x called with a legal value: its read and its write
\* both return 0.
SerialSet(x) ==
  /\ ncalls < SerialCalls
  /\ \E val \in x.legal :
       LET m == ReadModifyWrite(Begin, x.reg, x.field, val, 0, 0, 0)
       IN  /\ regs' = m.regs
           /\ trace' = m.trace
           /\ ret' = m.ret
           /\ call' = [fn |-> x.set, val |-> val]
           /\ history' = Append(history, [fn |-> x.set, val |-> val])
  /\ out' = <<>>
  /\ ncalls' = ncalls + 1
  /\ UNCHANGED <<ctx, thread>>

InitSerial == InitWith(Storing, {StartFile(s) : s \in 0..(NumSeeds - 1)})

NextSerial == \E x \in SerialSetters : SerialSet(x)

SpecSerial == InitSerial /\ [][NextSerial]_vars

(***************************************************************************)
(* Floating point.  A value is held in fixed point as <<ip, fp>>, standing *)
(* for ip + fp / 2^23 with 0 <= fp < 2^23: every value the conversions     *)
(* produce is such a number.  Products are formed in two limbs so that no  *)
(* intermediate exceeds 31 bits.                                           *)
(***************************************************************************)
Frac == 8388608

Limb == 4096

Abs(n) == IF n < 0 THEN -n ELSE n

\* The number of bits of n >= 0.
BitLen(n) == IF n = 0 THEN 0 ELSE CHOOSE k \in 1..31 : 2^(k-1) <= n /\ (k = 31 \/ n < 2^k)

\* q / d rounded to the nearest integer, ties to the even one.
RoundHalfEven(n, d) ==
  LET q == n \div d
      r == n % d
  IN  IF 2 * r > d \/ (2 * r = d /\ q % 2 = 1) THEN q + 1 ELSE q

\* Significand widths of the types float_t can be: float, or double on a
\* build that evaluates float expressions in double.
FloatT == {24, 53}

\* A decimal literal n/d with suffix f: the float nearest n/d, as
\* [m, k] standing for m / 2^k with m of 24 bits.
FloatLiteral(n, d) ==
  LET k == 24 - BitLen(n \div d)
  IN  [m |-> RoundHalfEven(n * 2^k, d), k |-> k]

\* The magnitude <<ip, fp>> rounded to a significand of w bits.
RoundTo(w, v) ==
  LET len == IF v[1] > 0 THEN BitLen(v[1]) + 23 ELSE BitLen(v[2])
      drop == IF len > w THEN len - w ELSE 0
      fp == RoundHalfEven(v[2], 2^drop) * 2^drop
  IN  IF fp = Frac THEN <<v[1] + 1, 0>> ELSE <<v[1], fp>>

\* Faulty variant of FloatMul: the product is cut to whole units.
FloatMulTruncated(w, a, c) ==
  <<(Abs(a) * (c.m \div Limb)) \div 2^(c.k - 12), 0>>

\* The magnitude of (float_t) a * c for an integer a of at most 16 bits
\* and a literal c, in a float_t of w bits: the exact product
\* a * c.m = H * 4096 + L, scaled by 2^-c.k, then rounded.
FloatMul(w, a, c) ==
  LET hi == Abs(a) * (c.m \div Limb)
      lo == Abs(a) * (c.m % Limb)
      H == hi + lo \div Limb
      L == lo % Limb
      rem == (H % 2^(c.k - 12)) * Limb + L
  IN  RoundTo(w, <<H \div 2^(c.k - 12), rem * 2^(23 - c.k)>>)

\* The magnitude v with the sign of a, in floor form.
Signed(a, v) ==
  IF a >= 0 THEN v
  ELSE IF v[2] = 0 THEN <<-v[1], 0>> ELSE <<-v[1] - 1, Frac - v[2]>>

\* Faulty variant of FloatAdd: the second operand is dropped.
FloatAddDropped(w, x, y) == x

\* x + y in a float_t of w bits, for x and y in floor form.
FloatAdd(w, x, y) ==
  LET fp == x[2] + y[2]
      s == <<x[1] + y[1] + fp \div Frac, fp % Frac>>
      neg == s[1] < 0
      mag == IF ~neg THEN s
             ELSE IF s[2] = 0 THEN <<-s[1], 0>> ELSE <<-s[1] - 1, Frac - s[2]>>
  IN  Signed(IF neg THEN -1 ELSE 1, RoundTo(w, mag))

\* Raw codes: every int16_t.
RawCodes == (-32768)..32767

\* A conversion helper returns v: it has no status and no access to ctx.
Converted(fn, lsb, v) ==
  /\ call' = [fn |-> fn, val |-> lsb]
  /\ out' = v
  /\ UNCHANGED <<ctx, regs, ret, trace, thread, history>>

\* return ((float_t)lsb) * 15.6f;
lis3de_from_fs2_to_mg ==
  \E lsb \in RawCodes, w \in FloatT :
    Converted("lis3de_from_fs2_to_mg", lsb,
              Signed(lsb, FloatMul(w, lsb, FloatLiteral(156, 10))))

\* return ((float_t)lsb) * 31.2f;
lis3de_from_fs4_to_mg ==
  \E lsb \in RawCodes, w \in FloatT :
    Converted("lis3de_from_fs4_to_mg", lsb,
              Signed(lsb, FloatMul(w, lsb, FloatLiteral(312, 10))))

\* return ((float_t)lsb) * 62.5f;
lis3de_from_fs8_to_mg ==
  \E lsb \in RawCodes, w \in FloatT :
    Converted("lis3de_from_fs8_to_mg", lsb,
              Signed(lsb, FloatMul(w, lsb, FloatLiteral(625, 10))))

\* return ((float_t)lsb) * 187.5f;
lis3de_from_fs16_to_mg ==
  \E lsb \in RawCodes, w \in FloatT :
    Converted("lis3de_from_fs16_to_mg", lsb,
              Signed(lsb, FloatMul(w, lsb, FloatLiteral(1875, 10))))

\* return (((float_t)lsb) * 1.0f) + 25.0f;
lis3de_from_lsb_to_celsius ==
  \E lsb \in RawCodes, w \in FloatT :
    Converted("lis3de_from_lsb_to_celsius", lsb,
              FloatAdd(w, Signed(lsb, FloatMul(w, lsb, FloatLiteral(10, 10))),
                          FloatMul(w, 1, FloatLiteral(250, 10))))

\* A session of the conversion helpers: each is applied once to a raw code.
InitUnits == InitWith(Faulty, {StartFile(0)})

NextUnits ==
  \/ Opening /\ lis3de_from_fs2_to_mg
  \/ Opening /\ lis3de_from_fs4_to_mg
  \/ Opening /\ lis3de_from_fs8_to_mg
  \/ Opening /\ lis3de_from_fs16_to_mg
  \/ Opening /\ lis3de_from_lsb_to_celsius

SpecUnits == InitUnits /\ [][NextUnits]_vars

(***************************************************************************)
(* Properties.                                                             *)
(***************************************************************************)
\* C1: on a storing transport that never fails, a bitfield setter called
\* with a legal value v and followed by the getter of the same field makes
\* the getter return 0 and output v.
C1_RoundTrip ==
  [][\A x \in Bitfields :
       (/\ call.fn = x.set
        /\ call.val \in x.legal
        /\ call'.fn = x.get)
       => (ret = 0 /\ ret' = 0 /\ out' = <<call.val>>)]_vars

\* The fastest data rate has been set on a register that held another rate
\* in every start file, and read back.
C1_Witness ==
  /\ ncalls = 1
  /\ call.fn = "lis3de_data_rate_get"
  /\ ret = 0
  /\ out = <<lis3de_odr_t.LIS3DE_ODR_5kHz376_LP_1kHz344_NM>>
  /\ \A s \in 0..(NumSeeds - 1) :
       FieldGet(StartFile(s)[LIS3DE.CTRL_REG1], lis3de_ctrl_reg1_t.odr)
         # lis3de_odr_t.LIS3DE_ODR_5kHz376_LP_1kHz344_NM

\* C2: on a storing transport that never fails, aux_adc_set(v) followed by
\* aux_adc_get() outputs v, for each of the three modes.
C2_AuxAdcRoundTrip ==
  [][(/\ call.fn = "lis3de_aux_adc_set"
      /\ ret = 0
      /\ call'.fn = "lis3de_aux_adc_get")
     => out' = <<call.val>>]_vars

\* The writes among the transport calls of the last accessor call.
Writes == {i \in 1..Len(trace) : trace[i].op = "write"}

\* C3: after a successful call of a bitfield setter, the bits of its
\* register outside the field are what they were before the call, every
\* other register is what it was, and no write went to another register.
C3_Isolation ==
  [][\A x \in Bitfields :
       (call'.fn = x.set /\ ret' = 0)
       => /\ FieldRest(regs'[x.reg], x.field) = FieldRest(regs[x.reg], x.field)
          /\ \A a \in Addr \ {x.reg} : regs'[a] = regs[a]
          /\ \A i \in Writes' : trace'[i].reg = x.reg /\ trace'[i].len = 1]_vars

\* full_scale_set(16g) succeeded on a CTRL_REG4 whose sibling fields are
\* not all zero and whose fs field held another value.
C3_Witness ==
  /\ call = [fn |-> "lis3de_full_scale_set", val |-> lis3de_fs_t.LIS3DE_16g]
  /\ ret = 0
  /\ \E s \in 0..(NumSeeds - 1) :
       LET old == StartFile(s)[LIS3DE.CTRL_REG4]
       IN  /\ FieldGet(old, lis3de_ctrl_reg4_t.fs) # lis3de_fs_t.LIS3DE_16g
           /\ FieldRest(old, lis3de_ctrl_reg4_t.fs) # 0
           /\ regs = [StartFile(s) EXCEPT ![LIS3DE.CTRL_REG4] =
                        FieldRest(old, lis3de_ctrl_reg4_t.fs)
                          + lis3de_fs_t.LIS3DE_16g * 16]

\* C4: when the first read of a read-modify-write setter returns a
\* non-zero status s, the setter issues no write, returns s, and every
\* device register is what it was.
C4_ReadFailureSkipsWrite ==
  [][(/\ call'.fn \in {x.set : x \in Bitfields} \cup {"lis3de_aux_adc_set"}
      /\ trace'[1].st # 0)
     => /\ trace'[1].op = "read"
        /\ Len(trace') = 1
        /\ ret' = trace'[1].st
        /\ regs' = regs]_vars

\* fifo_set found its read of CTRL_REG5 failing with status 3.
C4_Witness ==
  /\ call.fn = "lis3de_fifo_set"
  /\ Len(trace) = 1
  /\ trace[1].op = "read" /\ trace[1].reg = LIS3DE.CTRL_REG5
  /\ trace[1].st = 3
  /\ ret = 3

\* C5: every accessor stops at the first transport call that returns a
\* non-zero status and returns that status; it returns 0 only if every
\* transport call it issued returned 0.
C5_VerbatimNoRetry ==
  call # NoCall
  => /\ Len(trace) >= 1
     /\ \A i \in 1..(Len(trace) - 1) : trace[i].st = 0
     /\ ret = trace[Len(trace)].st

\* aux_adc_set got as far as its last write, which failed with status 3.
C5_Witness ==
  /\ call.fn = "lis3de_aux_adc_set"
  /\ Len(trace) = 4
  /\ trace[4].op = "write" /\ trace[4].st = 3
  /\ ret = 3

\* C6: when aux_adc_set is called with a mode other than disable, every
\* write to TEMP_CFG_REG comes after a successful write to CTRL_REG4 that
\* has the block-data-update bit set; when the read or the write of
\* CTRL_REG4 fails, no write to TEMP_CFG_REG is issued and the status of
\* the failing call is returned.
C6_AuxAdcEnableOrdering ==
  (call.fn = "lis3de_aux_adc_set" /\ call.val # lis3de_temp_en_t.LIS3DE_AUX_DISABLE)
  => /\ \A j \in Writes :
          trace[j].reg = LIS3DE.TEMP_CFG_REG
          => \E i \in Writes :
               /\ i < j
               /\ trace[i].reg = LIS3DE.CTRL_REG4
               /\ trace[i].st = 0
               /\ FieldGet(trace[i].data[1], lis3de_ctrl_reg4_t.bdu) = PROPERTY_ENABLE
     /\ \A i \in 1..Len(trace) :
          (trace[i].reg = LIS3DE.CTRL_REG4 /\ trace[i].st # 0)
          => /\ ret = trace[i].st
             /\ \A j \in Writes : trace[j].reg # LIS3DE.TEMP_CFG_REG

\* aux_adc_set(AUX_ON_PADS) wrote CTRL_REG4 and then TEMP_CFG_REG.
C6_Witness ==
  /\ call = [fn |-> "lis3de_aux_adc_set", val |-> lis3de_temp_en_t.LIS3DE_AUX_ON_PADS]
  /\ ret = 0
  /\ Len(trace) = 4
  /\ trace[3].op = "write" /\ trace[3].reg = LIS3DE.CTRL_REG4
  /\ trace[4].op = "write" /\ trace[4].reg = LIS3DE.TEMP_CFG_REG

\* The three axis reads of acceleration_raw_get, in the order of the code.
AxisRegs == <<LIS3DE.OUT_X, LIS3DE.OUT_Y, LIS3DE.OUT_Z>>

\* C7: when the read of OUT_X succeeds and the read of OUT_Y fails with
\* status s, acceleration_raw_get returns s, slot 0 of the output holds
\* the OUT_X byte sign-extended, slot 2 holds what it held before the
\* call, and OUT_Z is not read.
C7_AccelPartialFill ==
  (/\ call.fn = "lis3de_acceleration_raw_get"
   /\ Len(trace) >= 2
   /\ trace[1].st = 0
   /\ trace[2].st # 0)
  => /\ ret = trace[2].st
     /\ out[1] = (IF regs[LIS3DE.OUT_X] >= 128
                  THEN regs[LIS3DE.OUT_X] - 256
                  ELSE regs[LIS3DE.OUT_X])
     /\ out[3] = Prior(3)
     /\ \A i \in 1..Len(trace) : trace[i].reg # LIS3DE.OUT_Z

\* The OUT_Y read failed with status 3 after OUT_X delivered a negative
\* sample.
C7_Witness ==
  /\ call.fn = "lis3de_acceleration_raw_get"
  /\ Len(trace) = 2
  /\ trace[1].reg = LIS3DE.OUT_X /\ trace[1].st = 0
  /\ trace[2].reg = LIS3DE.OUT_Y /\ trace[2].st = 3
  /\ regs[LIS3DE.OUT_X] >= 128
  /\ out[1] < 0
  /\ ret = 3

\* C8: when the read of axis k fails, the output slots of axis k and of
\* the axes after it hold what they held before the call.
C8_FailedAxesUntouched ==
  (call.fn = "lis3de_acceleration_raw_get" /\ ret # 0)
  => \A i \in Len(trace)..3 : out[i] = Prior(i)

\* C9: acceleration_raw_get issues 1-byte reads of OUT_X, OUT_Y and OUT_Z
\* in that order, goes on to the next axis exactly when the reads before
\* it returned 0, and issues no write.
C9_AccelReadOrder ==
  call.fn = "lis3de_acceleration_raw_get"
  => /\ Len(trace) \in 1..3
     /\ \A i \in 1..Len(trace) :
          /\ trace[i].op = "read"
          /\ trace[i].reg = AxisRegs[i]
          /\ trace[i].len = 1
          /\ \A j \in 1..(i - 1) : trace[j].st = 0
     /\ Len(trace) < 3 => trace[Len(trace)].st # 0

\* The three axes were read, each after the one before it returned 0.
C9_Witness ==
  /\ call.fn = "lis3de_acceleration_raw_get"
  /\ Len(trace) = 3
  /\ trace[3].reg = LIS3DE.OUT_Z
  /\ ret = 0
  /\ out = <<Int8(regs[LIS3DE.OUT_X]), Int8(regs[LIS3DE.OUT_Y]),
             Int8(regs[LIS3DE.OUT_Z])>>

\* The signed 16-bit value of the little-endian pair (lo, hi).
Signed16(lo, hi) ==
  IF hi * 256 + lo >= 32768 THEN hi * 256 + lo - 65536 ELSE hi * 256 + lo

\* C10: adc_raw_get issues exactly one transport call, a read of 6 bytes
\* from OUT_ADC1_L; when the read delivers bytes b[0..5], output i is the
\* signed 16-bit value of b[2i+1]*256 + b[2i], also when b[2i+1] >= 0x80;
\* the bytes 1, 2, 3, 4, 5, 6 give 0x0201, 0x0403, 0x0605.
C10_AdcRawAssembly ==
  call.fn = "lis3de_adc_raw_get"
  => /\ Len(trace) = 1
     /\ trace[1].op = "read"
     /\ trace[1].reg = LIS3DE.OUT_ADC1_L
     /\ trace[1].len = 6
     /\ ret = trace[1].st
     /\ ret = 0 =>
          LET b == [k \in 0..5 |-> regs[LIS3DE.OUT_ADC1_L + k]]
          IN  /\ Len(out) = 3
              /\ \A i \in 0..2 : out[i + 1] = Signed16(b[2 * i], b[2 * i + 1])
              /\ (\A k \in 0..5 : b[k] = k + 1) => out = <<513, 1027, 1541>>

\* The read delivered a first pair whose high byte is 0x80 or more, and
\* the bytes 3, 4, 5, 6 after it.
C10_Witness ==
  /\ call.fn = "lis3de_adc_raw_get"
  /\ ret = 0
  /\ regs[LIS3DE.OUT_ADC1_L + 1] >= 128
  /\ out[1] < 0
  /\ out[2] = 1027 /\ out[3] = 1541

\* C11: when a read succeeds and the byte it delivers carries, in the
\* field a switch getter decodes, a code its switch has no case for, the
\* getter returns the read's status 0 and outputs the enumerator of its
\* default branch: POWER_DOWN for data_rate_get, ST_DISABLE for
\* self_test_get.
C11_DefensiveDefault ==
  \A x \in SwitchGetters :
    (/\ call.fn = x.get
     /\ ret = 0
     /\ FieldGet(regs[x.reg], x.field) \notin x.cases)
    => /\ trace[1].st = 0
       /\ out = <<x.default>>
       /\ x.get = "lis3de_data_rate_get"
            => out = <<lis3de_odr_t.LIS3DE_POWER_DOWN>>
       /\ x.get = "lis3de_self_test_get"
            => out = <<lis3de_st_t.LIS3DE_ST_DISABLE>>

\* data_rate_get read a CTRL_REG1 whose ODR code is 15.
C11_Witness ==
  /\ call.fn = "lis3de_data_rate_get"
  /\ ret = 0
  /\ FieldGet(regs[LIS3DE.CTRL_REG1], lis3de_ctrl_reg1_t.odr) = 15
  /\ out = <<lis3de_odr_t.LIS3DE_POWER_DOWN>>

\* C12: whatever byte a successful read delivers, an enumerated getter
\* outputs a member of its enumeration.
C12_ClosedDecode ==
  \A x \in EnumGetters :
    (call.fn = x.get /\ ret = 0)
    => (Len(out) = 1 /\ out[1] \in x.enum)

\* self_test_get read a CTRL_REG4 whose st code is the undefined 3.
C12_Witness ==
  /\ call.fn = "lis3de_self_test_get"
  /\ ret = 0
  /\ FieldGet(regs[LIS3DE.CTRL_REG4], lis3de_ctrl_reg4_t.st) = 3
  /\ out[1] \in Members(lis3de_st_t)

\* C13: a whole-register setter issues exactly one transport call, a
\* 1-byte write of the caller's byte to its register, and no read; after
\* it succeeded the register holds that byte, and the getter of the same
\* register called next outputs it.
C13_WholeRegisterWrite ==
  [][\A x \in WholeRegisters :
       /\ call'.fn = x.set
            => /\ Len(trace') = 1
               /\ trace'[1].op = "write"
               /\ trace'[1].reg = x.reg
               /\ trace'[1].len = 1
               /\ trace'[1].data = <<call'.val>>
               /\ ret' = 0 => regs'[x.reg] = call'.val
       /\ (call.fn = x.set /\ ret = 0 /\ call'.fn = x.get)
            => (ret' = 0 /\ out' = <<call.val>>)]_vars

\* tap_conf_set wrote a byte that CLICK_CFG held in no start file, and
\* tap_conf_get read it back.
C13_Witness ==
  /\ ncalls = 1
  /\ call.fn = "lis3de_tap_conf_get"
  /\ ret = 0
  /\ out = <<165>>
  /\ regs[LIS3DE.CLICK_CFG] = 165
  /\ \A s \in 0..(NumSeeds - 1) : StartFile(s)[LIS3DE.CLICK_CFG] # 165

\* Callers a and b have both returned 0 from setters of two different
\* bitfields of the same register.
BothSet(a, b) ==
  /\ a # b
  /\ thread[a].pc = "done" /\ thread[a].ret = 0 /\ thread[a].wr > 0
  /\ thread[b].pc = "done" /\ thread[b].ret = 0 /\ thread[b].wr > 0
  /\ Bitfield(thread[a].fn).reg = Bitfield(thread[b].fn).reg
  /\ Bitfield(thread[a].fn).field # Bitfield(thread[b].fn).field

\* C14: when two callers return 0 from setters of two different bitfields
\* of one register, a serialized order leaves both fields at the values
\* set; when b read before a wrote and wrote after a, b's field holds its
\* value and a's field is back at what it held when b read.
C14_ReadModifyWriteRace ==
  \A a \in Callers, b \in Callers :
    BothSet(a, b) =>
      LET xa  == Bitfield(thread[a].fn)
          xb  == Bitfield(thread[b].fn)
          now == regs[xa.reg]
      IN  /\ thread[a].wr < thread[b].rd
               => /\ FieldGet(now, xa.field) = thread[a].val
                  /\ FieldGet(now, xb.field) = thread[b].val
          /\ (thread[b].rd < thread[a].wr /\ thread[a].wr < thread[b].wr)
               => /\ FieldGet(now, xb.field) = thread[b].val
                  /\ FieldGet(now, xa.field) = FieldGet(thread[b].byte, xa.field)

\* full_scale_set(16g) and block_data_update_set(1) both returned 0 on a
\* CTRL_REG4 that held neither value; the register has bdu = 1 and its fs
\* field is what it was before the two calls.
C14_Witness ==
  \E a \in Callers, b \in Callers :
    /\ BothSet(a, b)
    /\ thread[a].fn = "lis3de_full_scale_set"
    /\ thread[a].val = lis3de_fs_t.LIS3DE_16g
    /\ thread[b].fn = "lis3de_block_data_update_set"
    /\ thread[b].val = PROPERTY_ENABLE
    /\ thread[b].rd < thread[a].wr /\ thread[a].wr < thread[b].wr
    /\ FieldGet(regs[LIS3DE.CTRL_REG4], lis3de_ctrl_reg4_t.bdu) = PROPERTY_ENABLE
    /\ FieldGet(regs[LIS3DE.CTRL_REG4], lis3de_ctrl_reg4_t.fs) # lis3de_fs_t.LIS3DE_16g
    /\ \E s \in 0..(NumSeeds - 1) :
         /\ FieldGet(StartFile(s)[LIS3DE.CTRL_REG4], lis3de_ctrl_reg4_t.bdu)
              = PROPERTY_DISABLE
         /\ FieldGet(regs[LIS3DE.CTRL_REG4], lis3de_ctrl_reg4_t.fs)
              = FieldGet(StartFile(s)[LIS3DE.CTRL_REG4], lis3de_ctrl_reg4_t.fs)
         /\ \A r \in Addr \ {LIS3DE.CTRL_REG4} : regs[r] = StartFile(s)[r]

\* The most transport calls one invocation of accessor fn, called with
\* val, can issue.
MostCalls(fn, val) ==
  CASE fn = "lis3de_acceleration_raw_get" -> 3
    [] fn = "lis3de_aux_adc_set" ->
         IF val = lis3de_temp_en_t.LIS3DE_AUX_DISABLE THEN 2 ELSE 4
    [] OTHER -> 2

\* C15 (as stated): every accessor issues one or two transport calls per
\* invocation.
C15_OneOrTwoCalls ==
  call.fn # "none" => Len(trace) \in 1..2

\* C15 (amended): every accessor issues at least one transport call per
\* invocation and at most two, except acceleration_raw_get, which issues
\* up to three, and aux_adc_set with a mode other than AUX_DISABLE, which
\* issues up to four; a call that returns 0 from either issues that many.
C15_TransportCalls ==
  call.fn # "none" =>
    /\ Len(trace) \in 1..MostCalls(call.fn, call.val)
    /\ (ret = 0 /\ MostCalls(call.fn, call.val) > 2)
         => Len(trace) = MostCalls(call.fn, call.val)

\* aux_adc_set(AUX_ON_TEMPERATURE) returned 0 after four transport calls:
\* two reads and two writes.
C15_Witness ==
  /\ call.fn = "lis3de_aux_adc_set"
  /\ call.val = lis3de_temp_en_t.LIS3DE_AUX_ON_TEMPERATURE
  /\ ret = 0
  /\ Len(trace) = 4
  /\ Cardinality({i \in 1..4 : trace[i].op = "read"}) = 2
  /\ \A i \in 1..4 : trace[i].st = 0

\* The scale factors of the four acceleration helpers, in tenths.
Factor ==
  [lis3de_from_fs2_to_mg |-> 156, lis3de_from_fs4_to_mg |-> 312,
   lis3de_from_fs8_to_mg |-> 625, lis3de_from_fs16_to_mg |-> 1875]

\* The single-precision constants nearest 15.6 and 31.2, 8178893 / 2^19
\* and 8178893 / 2^18, in fixed point.
Single ==
  [lis3de_from_fs2_to_mg |-> <<15, (8178893 - 15 * 2^19) * 2^4>>,
   lis3de_from_fs4_to_mg |-> <<31, (8178893 - 31 * 2^18) * 2^5>>]

\* The fixed-point value v is the rational n / d, for 0 < d <= 10.
Equals(v, n, d) ==
  /\ (d * v[2]) % Frac = 0
  /\ d * v[1] + (d * v[2]) \div Frac = n

\* The fixed-point value v is within |n / d| / 2^22 of the rational n / d.
Near(v, n, d) ==
  /\ Abs(d * v[1] - n) <= 2 * d
  /\ Abs((d * v[1] - n) * Frac + d * v[2]) <= 2 * Abs(n)

\* C16 (as stated): each acceleration helper returns lsb times its factor
\* 15.6, 31.2, 62.5 or 187.5.
C16_ExactProduct ==
  call.fn \in DOMAIN Factor => Equals(out, Factor[call.fn] * call.val, 10)

\* C16 (amended): each acceleration helper returns lsb times its factor to
\* within a relative error of 2^-22; from_fs8_to_mg and from_fs16_to_mg
\* return lsb * 62.5 and lsb * 187.5 exactly; from_fs2_to_mg(lsb) and
\* from_fs4_to_mg(lsb) are lsb * 15.6 and lsb * 31.2 only when lsb is a
\* multiple of 5, and for lsb = 1 they are the single-precision constants
\* 8178893 / 2^19 and 8178893 / 2^18.
C16_RoundedProduct ==
  call.fn \in DOMAIN Factor =>
    /\ Near(out, Factor[call.fn] * call.val, 10)
    /\ call.fn \in {"lis3de_from_fs8_to_mg", "lis3de_from_fs16_to_mg"}
         => Equals(out, Factor[call.fn] * call.val, 10)
    /\ call.fn \in {"lis3de_from_fs2_to_mg", "lis3de_from_fs4_to_mg"}
         => /\ Equals(out, Factor[call.fn] * call.val, 10) => call.val % 5 = 0
            /\ call.val = 1 => out = Single[call.fn]

\* from_fs2_to_mg(1) returned 8178893 / 2^19, which is not 15.6.
C16_Witness ==
  /\ call = [fn |-> "lis3de_from_fs2_to_mg", val |-> 1]
  /\ out = <<15, 5033168>>
  /\ ~Equals(out, 156, 10)

\* The five unit-conversion helpers.
Helpers == DOMAIN Factor \cup {"lis3de_from_lsb_to_celsius"}

\* C17: from_lsb_to_celsius(lsb) is lsb + 25 for every raw code lsb; a
\* unit-conversion helper returns a number for every raw code, issues no
\* transport call and leaves the registers as they were.
C17_Celsius ==
  /\ call.fn = "lis3de_from_lsb_to_celsius" => out = <<call.val + 25, 0>>
  /\ call.fn \in Helpers =>
       /\ Len(out) = 2 /\ out[2] \in 0..(Frac - 1)
       /\ trace = <<>>
       /\ regs = StartFile(0)

\* from_lsb_to_celsius(0) returned 25 with no transport call issued.
C17_Witness ==
  /\ call = [fn |-> "lis3de_from_lsb_to_celsius", val |-> 0]
  /\ out = <<25, 0>>
  /\ trace = <<>>

\* C18: a single-bitfield setter that returns 0 has issued exactly two
\* transport calls, a 1-byte read of its register and then a 1-byte write
\* to the same address; the byte written is the byte read with the
\* targeted field holding the requested value (cut to the field's width)
\* and every other bit as read.
C18_ReadModifyWriteShape ==
  [][\A x \in Bitfields :
       (call'.fn = x.set /\ ret' = 0) =>
         /\ Len(trace') = 2
         /\ trace'[1].op = "read" /\ trace'[1].reg = x.reg /\ trace'[1].len = 1
         /\ trace'[2].op = "write" /\ trace'[2].reg = x.reg /\ trace'[2].len = 1
         /\ trace'[1].handle = ctx.handle /\ trace'[2].handle = ctx.handle
         /\ FieldGet(trace'[2].data[1], x.field) = call'.val % (2 ^ x.field.len)
         /\ FieldRest(trace'[2].data[1], x.field) = FieldRest(regs[x.reg], x.field)]_vars

\* int1_gen_threshold_set(129) returned 0 after reading IG1_THS and
\* writing it back with ths = 129 mod 128 and the top bit as it was, set.
C18_Witness ==
  /\ call = [fn |-> "lis3de_int1_gen_threshold_set", val |-> 129]
  /\ ret = 0
  /\ Len(trace) = 2
  /\ trace[1].op = "read" /\ trace[1].reg = LIS3DE.IG1_THS
  /\ trace[2].op = "write" /\ trace[2].reg = LIS3DE.IG1_THS
  /\ trace[2].data = <<128 + 1>>

\* The [get] accessors: every function of the file named ..._get.
Getters ==
  {"lis3de_temp_status_reg_get", "lis3de_temp_data_ready_get",
   "lis3de_temp_data_ovr_get", "lis3de_temperature_raw_get",
   "lis3de_adc_raw_get", "lis3de_aux_adc_get", "lis3de_operating_mode_get",
   "lis3de_data_rate_get", "lis3de_high_pass_on_outputs_get",
   "lis3de_high_pass_bandwidth_get", "lis3de_high_pass_mode_get",
   "lis3de_full_scale_get", "lis3de_block_data_update_get",
   "lis3de_filter_reference_get", "lis3de_xl_data_ready_get",
   "lis3de_xl_data_ovr_get", "lis3de_acceleration_raw_get",
   "lis3de_device_id_get", "lis3de_self_test_get", "lis3de_boot_get",
   "lis3de_status_get", "lis3de_int1_gen_conf_get",
   "lis3de_int1_gen_source_get", "lis3de_int1_gen_threshold_get",
   "lis3de_int1_gen_duration_get", "lis3de_int2_gen_conf_get",
   "lis3de_int2_gen_source_get", "lis3de_int2_gen_threshold_get",
   "lis3de_int2_gen_duration_get", "lis3de_high_pass_int_conf_get",
   "lis3de_pin_int1_config_get", "lis3de_int2_pin_detect_4d_get",
   "lis3de_int2_pin_notification_mode_get",
   "lis3de_int1_pin_detect_4d_get",
   "lis3de_int1_pin_notification_mode_get", "lis3de_pin_int2_config_get",
   "lis3de_fifo_get", "lis3de_fifo_watermark_get",
   "lis3de_fifo_trigger_event_get", "lis3de_fifo_mode_get",
   "lis3de_fifo_status_get", "lis3de_fifo_data_level_get",
   "lis3de_fifo_empty_flag_get", "lis3de_fifo_ovr_flag_get",
   "lis3de_fifo_fth_flag_get", "lis3de_tap_conf_get",
   "lis3de_tap_source_get", "lis3de_tap_threshold_get",
   "lis3de_tap_notification_mode_get", "lis3de_shock_dur_get",
   "lis3de_quiet_dur_get", "lis3de_double_tap_timeout_get",
   "lis3de_act_threshold_get", "lis3de_act_timeout_get",
   "lis3de_spi_mode_get"}

\* C19: no getter issues a write transport call; a getter call on a
\* storing transport leaves every register at the value it had, so that
\* after any sequence of getters the registers are what they were at its
\* start; and a getter repeated with no write in between returns the same
\* status and the same output.
C19_GettersReadOnly ==
  [][call'.fn \in Getters =>
       /\ \A i \in 1..Len(trace') : trace'[i].op = "read"
       /\ regs' = regs
       /\ call.fn = call'.fn => (ret' = ret /\ out' = out)]_vars

\* acceleration_raw_get returned 0 in a session of getters only: three
\* reads, the three samples read, and the registers as the session found
\* them.
C19_Witness ==
  /\ call.fn = "lis3de_acceleration_raw_get"
  /\ ncalls = 0
  /\ ret = 0
  /\ \E s \in 0..(NumSeeds - 1) : regs = StartFile(s)
  /\ Len(trace) = 3
  /\ \A i \in 1..3 : trace[i].op = "read"
  /\ out = <<Int8(regs[LIS3DE.OUT_X]), Int8(regs[LIS3DE.OUT_Y]),
             Int8(regs[LIS3DE.OUT_Z])>>
  /\ out # <<0, 0, 0>>

\* C20: when the first read of aux_adc_set, that of TEMP_CFG_REG, returns
\* a non-zero status s, aux_adc_set returns s having issued that read and
\* nothing else: no read or write of CTRL_REG4, no write of TEMP_CFG_REG,
\* whatever the mode requested, and every register is what it was.
C20_AuxAdcAbortsOnFirstRead ==
  [][(call'.fn = "lis3de_aux_adc_set" /\ trace'[1].st # 0) =>
       /\ call'.val \in Members(lis3de_temp_en_t)
       /\ trace'[1].op = "read" /\ trace'[1].reg = LIS3DE.TEMP_CFG_REG
       /\ ret' = trace'[1].st
       /\ \A i \in 1..Len(trace') :
            /\ trace'[i].reg # LIS3DE.CTRL_REG4
            /\ trace'[i].op # "write"
            /\ i = 1
       /\ regs' = regs]_vars

\* aux_adc_set(AUX_ON_TEMPERATURE) returned -1, the status of its read of
\* TEMP_CFG_REG, which is its only transport call.
C20_Witness ==
  /\ call = [fn |-> "lis3de_aux_adc_set",
             val |-> lis3de_temp_en_t.LIS3DE_AUX_ON_TEMPERATURE]
  /\ ret = -1
  /\ Len(trace) = 1
  /\ trace[1].op = "read" /\ trace[1].reg = LIS3DE.TEMP_CFG_REG
  /\ trace[1].st = -1

\* The bits of the TEMP_CFG_REG byte b that are neither temp_en nor adc_pd.
NonAdcBits(b) == FieldGet(b, lis3de_temp_cfg_reg_t.not_used_01)

\* C21: after aux_adc_set returns 0 for AUX_ON_TEMPERATURE or AUX_ON_PADS,
\* block data update is 1 in CTRL_REG4 and every other bit of CTRL_REG4 is
\* as before the call; in TEMP_CFG_REG the six low bits are as before the
\* call, adc_pd is bit 0 of the mode and temp_en is bit 1 of the mode; no
\* other register has changed.
C21_AuxAdcPostState ==
  [][(/\ call'.fn = "lis3de_aux_adc_set"
      /\ call'.val # lis3de_temp_en_t.LIS3DE_AUX_DISABLE
      /\ ret' = 0)
     => /\ FieldGet(regs'[LIS3DE.CTRL_REG4], lis3de_ctrl_reg4_t.bdu) = 1
        /\ FieldRest(regs'[LIS3DE.CTRL_REG4], lis3de_ctrl_reg4_t.bdu)
             = FieldRest(regs[LIS3DE.CTRL_REG4], lis3de_ctrl_reg4_t.bdu)
        /\ NonAdcBits(regs'[LIS3DE.TEMP_CFG_REG])
             = NonAdcBits(regs[LIS3DE.TEMP_CFG_REG])
        /\ FieldGet(regs'[LIS3DE.TEMP_CFG_REG], lis3de_temp_cfg_reg_t.adc_pd)
             = call'.val % 2
        /\ FieldGet(regs'[LIS3DE.TEMP_CFG_REG], lis3de_temp_cfg_reg_t.temp_en)
             = (call'.val \div 2) % 2
        /\ \A r \in Addr \ {LIS3DE.CTRL_REG4, LIS3DE.TEMP_CFG_REG} :
             regs'[r] = regs[r]]_vars

\* aux_adc_set(AUX_ON_PADS) returned 0 on registers where block data
\* update was 0 and temp_en was 1: now bdu = 1, adc_pd = 1, temp_en = 0
\* and the low six bits of TEMP_CFG_REG are not all zero.
C21_Witness ==
  /\ call = [fn |-> "lis3de_aux_adc_set", val |-> lis3de_temp_en_t.LIS3DE_AUX_ON_PADS]
  /\ ret = 0
  /\ \E s \in 0..(NumSeeds - 1) :
       /\ FieldGet(StartFile(s)[LIS3DE.CTRL_REG4], lis3de_ctrl_reg4_t.bdu) = 0
       /\ FieldGet(StartFile(s)[LIS3DE.TEMP_CFG_REG], lis3de_temp_cfg_reg_t.temp_en) = 1
       /\ NonAdcBits(StartFile(s)[LIS3DE.TEMP_CFG_REG]) # 0
       /\ regs = [StartFile(s) EXCEPT
                    ![LIS3DE.CTRL_REG4] = @ + 128,
                    ![LIS3DE.TEMP_CFG_REG] = NonAdcBits(@) + 128]

\* C22: aux_adc_set(AUX_DISABLE) issues no read and no write of CTRL_REG4:
\* its transport calls are one read of TEMP_CFG_REG and, when that read
\* returned 0, one write of TEMP_CFG_REG; CTRL_REG4, and with it block
\* data update, is as before the call.
C22_AuxAdcDisableLeavesBdu ==
  [][(/\ call'.fn = "lis3de_aux_adc_set"
      /\ call'.val = lis3de_temp_en_t.LIS3DE_AUX_DISABLE)
     => /\ \A i \in 1..Len(trace') : trace'[i].reg = LIS3DE.TEMP_CFG_REG
        /\ trace'[1].op = "read" /\ trace'[1].len = 1
        /\ Len(trace') = IF trace'[1].st = 0 THEN 2 ELSE 1
        /\ Len(trace') = 2 => (trace'[2].op = "write" /\ trace'[2].len = 1)
        /\ regs'[LIS3DE.CTRL_REG4] = regs[LIS3DE.CTRL_REG4]]_vars

\* aux_adc_set(AUX_DISABLE) returned 0 after a read and a write of
\* TEMP_CFG_REG, on registers where block data update is 1.
C22_Witness ==
  /\ call = [fn |-> "lis3de_aux_adc_set", val |-> lis3de_temp_en_t.LIS3DE_AUX_DISABLE]
  /\ ret = 0
  /\ Len(trace) = 2
  /\ trace[1].op = "read" /\ trace[2].op = "write"
  /\ FieldGet(regs[LIS3DE.CTRL_REG4], lis3de_ctrl_reg4_t.bdu) = 1
  /\ FieldGet(regs[LIS3DE.TEMP_CFG_REG], lis3de_temp_cfg_reg_t.adc_pd) = 0

\* C23: when aux_adc_set, called with a mode other than AUX_DISABLE, has
\* written CTRL_REG4 successfully and its write of TEMP_CFG_REG then
\* returns a non-zero status s, it returns s with no further transport
\* call: CTRL_REG4 holds block data update = 1 with its other bits as
\* before the call, and TEMP_CFG_REG holds what it held before the call.
C23_AuxAdcNoRollback ==
  [][(/\ call'.fn = "lis3de_aux_adc_set"
      /\ Len(trace') >= 4
      /\ trace'[3].st = 0
      /\ trace'[4].st # 0)
     => /\ call'.val # lis3de_temp_en_t.LIS3DE_AUX_DISABLE
        /\ Len(trace') = 4
        /\ trace'[3].op = "write" /\ trace'[3].reg = LIS3DE.CTRL_REG4
        /\ trace'[4].op = "write" /\ trace'[4].reg = LIS3DE.TEMP_CFG_REG
        /\ ret' = trace'[4].st
        /\ regs'[LIS3DE.CTRL_REG4]
             = FieldSet(regs[LIS3DE.CTRL_REG4], lis3de_ctrl_reg4_t.bdu, 1)
        /\ regs'[LIS3DE.TEMP_CFG_REG] = regs[LIS3DE.TEMP_CFG_REG]]_vars

\* aux_adc_set(AUX_ON_TEMPERATURE) returned 3, the status of its write of
\* TEMP_CFG_REG, on registers where block data update was 0: CTRL_REG4
\* now has it set and TEMP_CFG_REG is as it was.
C23_Witness ==
  /\ call = [fn |-> "lis3de_aux_adc_set",
             val |-> lis3de_temp_en_t.LIS3DE_AUX_ON_TEMPERATURE]
  /\ ret = 3
  /\ Len(trace) = 4
  /\ trace[3].st = 0 /\ trace[4].st = 3
  /\ \E s \in 0..(NumSeeds - 1) :
       /\ FieldGet(StartFile(s)[LIS3DE.CTRL_REG4], lis3de_ctrl_reg4_t.bdu) = 0
       /\ regs = [StartFile(s) EXCEPT ![LIS3DE.CTRL_REG4] = @ + 128]

\* The calls of the log that set the field of row x.
CallsOf(x) == {i \in 1..Len(history) : history[i].fn = x.set}

\* The value the log gives the field of row x on a session started from
\* file f: that of the most recent call of its setter, or the one in f.
LastWritten(x, f) ==
  IF CallsOf(x) = {} THEN FieldGet(f[x.reg], x.field)
  ELSE history[CHOOSE i \in CallsOf(x) : \A j \in CallsOf(x) : j <= i].val

\* C24: on a storing, never-failing transport, after any sequence of
\* single-bitfield setter calls with legal values, every call has returned
\* 0 and each bitfield holds the value passed by the most recent call of
\* its setter, or its initial value when its setter was never called;
\* the bits no setter of the session targets are as they were.  The
\* fields depend only on the last call of each setter, not on the order
\* of calls of different setters.
C24_LastWriterWins ==
  history # <<>> =>
    /\ ret = 0
    /\ \E s \in 0..(NumSeeds - 1) :
         /\ \A x \in Bitfields : FieldGet(regs[x.reg], x.field) = LastWritten(x, StartFile(s))
         /\ \A r \in Addr :
              (\A x \in SerialSetters : x.reg # r) => regs[r] = StartFile(s)[r]

\* full_scale_set(16g), block_data_update_set(1) and then full_scale_set(4g)
\* were called: fs holds 4g and bdu holds 1.
C24_Witness ==
  /\ history = << [fn |-> "lis3de_full_scale_set", val |-> lis3de_fs_t.LIS3DE_16g],
                  [fn |-> "lis3de_block_data_update_set", val |-> PROPERTY_ENABLE],
                  [fn |-> "lis3de_full_scale_set", val |-> lis3de_fs_t.LIS3DE_4g] >>
  /\ FieldGet(regs[LIS3DE.CTRL_REG4], lis3de_ctrl_reg4_t.fs) = lis3de_fs_t.LIS3DE_4g
  /\ FieldGet(regs[LIS3DE.CTRL_REG4], lis3de_ctrl_reg4_t.bdu) = PROPERTY_ENABLE
  /\ FieldGet(StartFile(0)[LIS3DE.CTRL_REG4], lis3de_ctrl_reg4_t.bdu) = PROPERTY_DISABLE
  /\ \A r \in Addr \ {LIS3DE.CTRL_REG4} : regs[r] = StartFile(0)[r]

\* C25: when its three axis reads return 0, acceleration_raw_get returns 0
\* and slot i of the output holds the byte of the i-th axis register as a
\* signed 8-bit value widened to 16 bits: b for b < 128, b - 256 otherwise.
C25_AccelSignExtension ==
  (/\ call.fn = "lis3de_acceleration_raw_get"
   /\ Len(trace) = 3
   /\ \A i \in 1..3 : trace[i].st = 0)
  => /\ ret = 0
     /\ Len(out) = 3
     /\ \A i \in 1..3 :
          LET b == regs[AxisRegs[i]]
          IN  /\ out[i] = IF b < 128 THEN b ELSE b - 256
              /\ out[i] \in (-128)..127

\* acceleration_raw_get returned 0 with OUT_X = 200, OUT_Y = 127 and
\* OUT_Z = 128: the samples are -56, 127 and -128.
C25_Witness ==
  /\ call.fn = "lis3de_acceleration_raw_get"
  /\ ret = 0
  /\ regs[LIS3DE.OUT_X] = 200 /\ regs[LIS3DE.OUT_Y] = 127 /\ regs[LIS3DE.OUT_Z] = 128
  /\ out = <<-56, 127, -128>>

\* C26: when a setter is passed a value wider than its bitfield and its
\* transport calls return 0, it returns 0, the field holds the value
\* modulo 2^width, the other bits of the register are as before the call
\* and so is every other register.
C26_Truncation ==
  [][\A x \in Bitfields :
       (/\ call'.fn = x.set
        /\ call'.val >= 2 ^ x.field.len
        /\ \A i \in 1..Len(trace') : trace'[i].st = 0)
       => /\ ret' = 0
          /\ Len(trace') = 2
          /\ FieldGet(regs'[x.reg], x.field) = call'.val % (2 ^ x.field.len)
          /\ FieldRest(regs'[x.reg], x.field) = FieldRest(regs[x.reg], x.field)
          /\ \A a \in Addr \ {x.reg} : regs'[a] = regs[a]]_vars

\* fifo_watermark_set(33) returned 0 on a FIFO_CTRL_REG whose three high
\* bits were not all zero: fth holds 1 and the high bits are as they were.
C26_Witness ==
  /\ call = [fn |-> "lis3de_fifo_watermark_set", val |-> 33]
  /\ ret = 0
  /\ FieldGet(regs[LIS3DE.FIFO_CTRL_REG], lis3de_fifo_ctrl_reg_t.fth) = 1
  /\ \E s \in 0..(NumSeeds - 1) :
       /\ FieldRest(StartFile(s)[LIS3DE.FIFO_CTRL_REG], lis3de_fifo_ctrl_reg_t.fth) # 0
       /\ regs = [StartFile(s) EXCEPT ![LIS3DE.FIFO_CTRL_REG] =
                    FieldRest(@, lis3de_fifo_ctrl_reg_t.fth) + 1]

\* C27: operating_mode_get issues one read of CTRL_REG1 and returns its
\* status; when the status is not 0 the caller's output variable holds
\* what it held before the call; when it is 0 the output is LP if the lpen
\* bit of CTRL_REG1 is 1 and NM otherwise.
C27_OperatingModeGet ==
  call.fn = "lis3de_operating_mode_get" =>
    /\ Len(trace) = 1
    /\ trace[1].op = "read" /\ trace[1].reg = LIS3DE.CTRL_REG1
    /\ ret = trace[1].st
    /\ ret # 0 => out = <<Prior(1)>>
    /\ ret = 0 =>
         out = <<IF (regs[LIS3DE.CTRL_REG1] \div 8) % 2 = 1
                 THEN lis3de_op_md_t.LIS3DE_LP
                 ELSE lis3de_op_md_t.LIS3DE_NM>>

\* operating_mode_get returned 3, the status of its read, and the output
\* variable is as the caller left it.
C27_Witness ==
  /\ call.fn = "lis3de_operating_mode_get"
  /\ ret = 3
  /\ trace[1].st = 3
  /\ out = <<Prior(1)>>

\* The switch getters whose bitfield has a code that is no enumerator.
Defaulting == {"lis3de_data_rate_get", "lis3de_self_test_get"}

\* C28: for every switch getter other than data_rate_get and
\* self_test_get (high_pass_bandwidth_get, high_pass_mode_get,
\* full_scale_get, fifo_mode_get and high_pass_int_conf_get among them),
\* whatever byte a successful read delivers, the code of the bitfield has
\* a case of its own and the output is that code; an output that differs
\* from the code on the wire comes from data_rate_get or self_test_get.
C28_DefaultsUnreachable ==
  \A x \in SwitchGetters :
    (call.fn = x.get /\ ret = 0) =>
      LET code == FieldGet(regs[x.reg], x.field)
      IN  /\ x.get \notin Defaulting => (code \in x.cases /\ out = <<code>>)
          /\ out # <<code>> => (x.get \in Defaulting /\ out = <<x.default>>)
          /\ x.get \notin Defaulting => x.cases = 0..(2 ^ x.field.len - 1)

\* high_pass_int_conf_get read a CTRL_REG2 whose hp code is 7, the highest
\* of the field, and output it.
C28_Witness ==
  /\ call.fn = "lis3de_high_pass_int_conf_get"
  /\ ret = 0
  /\ FieldGet(regs[LIS3DE.CTRL_REG2], lis3de_ctrl_reg2_t.hp) = 7
  /\ out = <<7>>

\* The register each table-driven accessor requests, one byte at a time.
Requested ==
  {[fn |-> x.set, reg |-> x.reg] : x \in Bitfields \cup WholeRegisters}
    \cup {[fn |-> x.get, reg |-> x.reg] :
            x \in Bitfields \cup WholeRegisters \cup SwitchGetters}

\* C29: every transport call of every accessor is handed the handle of
\* the context; an accessor that returned ran until its last transport
\* call and returns that call's status; the accessors of one register
\* address it, one byte at a time; and a wrapper called directly issues
\* exactly one transport call, with the handle of the context, the
\* register, the length and (writing) the bytes it was passed, returns
\* the status of that call and changes no register itself.
C29_PassThrough ==
  call.fn # "none" =>
    /\ \A i \in 1..Len(trace) : trace[i].handle = ctx.handle
    /\ ret = trace[Len(trace)].st
    /\ \A q \in Requested :
         q.fn = call.fn =>
           \A i \in 1..Len(trace) : trace[i].reg = q.reg /\ trace[i].len = 1
    /\ call.fn \in {"lis3de_read_reg", "lis3de_write_reg"} =>
         /\ Len(trace) = 1
         /\ trace[1].op = IF call.fn = "lis3de_read_reg" THEN "read" ELSE "write"
         /\ trace[1].reg = call.val
         /\ trace[1].len = Len(out)
         /\ call.fn = "lis3de_write_reg" => trace[1].data = out
         /\ (call.fn = "lis3de_read_reg" /\ ret = 0) =>
              out = [i \in 1..Len(out) |-> regs[call.val + i - 1]]

\* lis3de_read_reg of two bytes from OUT_ADC1_L on the context whose
\* handle is 2 returned 3, the status of its one transport call.
C29_Witness ==
  /\ call = [fn |-> "lis3de_read_reg", val |-> LIS3DE.OUT_ADC1_L]
  /\ ctx.handle = 2
  /\ ret = 3
  /\ trace = << [op |-> "read", handle |-> 2, reg |-> LIS3DE.OUT_ADC1_L,
                 len |-> 2, data |-> <<>>, st |-> 3] >>
====
